---- MODULE Spec2Model ----
(***************************************************************************)
(* Model of the MCP agent CLI (src/index.js): the schema translator, the   *)
(* tool proxies built at discovery, the step-bounded execution loop that   *)
(* drives them, and the lifecycle of the provider connection (main, the    *)
(* interactive shell and the SIGINT / SIGTERM handlers).                   *)
(*                                                                         *)
(* The multi-step loop itself (generateText of the 'ai' package), zod's    *)
(* validation and the provider client are libraries outside the            *)
(* repository; the loop is modelled from sections 4.4 and 6 of the         *)
(* specification, validation from what zod does with the signatures the    *)
(* translator builds, everything else from the source.                     *)
(***************************************************************************)
EXTENDS Integers, Sequences, FiniteSets, TLC

\* ------------------------------------------------------------------ bounds
MaxBudget == 2      \* largest --max-steps value tried
MaxCalls == 2       \* most tool-call requests the model makes in one run
MaxLines == 2       \* most input lines typed in interactive mode
MaxSignals == 1     \* most signals delivered to the process
MaxItems == 2       \* most content items in one tool result

\* ------------------------------------------------------- state
VARIABLES
  options,        \* the parsed command line: headless, prompt, maxSteps, apiKey
  env,            \* the process environment
  store,          \* the agent_outputs table, its id sequence and the clock
  last,           \* the last call into the persistence layer and its outcome
  pool,           \* database.js's pool: 0 for null, else the number of the Pool it holds
  pg,             \* the pg library: pools created, end() calls, clients handed out
  provider,       \* the tool descriptors the provider reports from listTools
  zodDefault,     \* what the installed zod does with a default: "parsed" or "returned"
  mainpc,         \* where main() is suspended
  client,         \* the module-level client: "null" or "session"
  connState,      \* the provider connection: "none", "open", "failed", "closed"
  mcpCloseCalls,  \* how often mcpClient.close() has been invoked
  tools,          \* the proxies built by client.tools()
  exit,           \* how the process ended, if it has
  handlers,       \* the signal handlers that have run, in delivery order
  rl,             \* standard input as the readline interface sees it
  run,            \* the current (or last) executePrompt
  activeRuns,     \* executePrompt calls that have not settled
  runsStarted     \* executePrompt calls made so far

processVars == <<options, env, provider, zodDefault, mainpc, client, connState, mcpCloseCalls,
                 tools, exit, handlers, rl, run, activeRuns, runsStarted>>
vars == <<options, env, store, last, pool, pg, provider, zodDefault, mainpc, client, connState, mcpCloseCalls, tools, exit,
          handlers, rl,
          run, activeRuns, runsStarted>>

\* ------------------------------------------------------- JSON values
\* A JSON value is a record [t, v]: t is the JavaScript type, v the payload.
\* Absent is the undefined a missing object key reads as.
JStr(s) == [t |-> "string", v |-> s]
JObj(fields) == [t |-> "object", v |-> fields]
JNum(n) == [t |-> "number", v |-> n]
JArr(elems) == [t |-> "array", v |-> elems]
Absent == [t |-> "undefined", v |-> <<>>]
EmptyFields == <<>>

\* A JSON document that is not a plain JavaScript object (undefined, null, a
\* string, a number, an array) carries the reserved field jsType; plain
\* objects are records of their keys.
Undefined == [jsType |-> "undefined"]
Null == [jsType |-> "null"]
StrDoc(s) == [jsType |-> "string", str |-> s]
NumDoc(n) == [jsType |-> "number", num |-> n]
ArrayDoc(elems) == [jsType |-> "array", elems |-> elems]
BoolDoc(b) == [jsType |-> "boolean", bool |-> b]
IsObjectDoc(d) == "jsType" \notin DOMAIN d
IsArrayDoc(d) == ~IsObjectDoc(d) /\ d.jsType = "array"
Has(d, k) == k \in DOMAIN d

\* JavaScript truthiness of a document: undefined, null, "" and 0 are falsy,
\* every object and every array (the empty one too) is truthy.
TruthyDoc(d) ==
  \/ IsObjectDoc(d)
  \/ d.jsType = "array"
  \/ (d.jsType = "string" /\ d.str # <<>>)
  \/ (d.jsType = "number" /\ d.num # 0)
  \/ (d.jsType = "boolean" /\ d.bool)
TruthyKey(d, k) == Has(d, k) /\ TruthyDoc(d[k])

\* variants.length (line 44): the number of elements of an array, of
\* characters of a string; undefined (here -1) for anything else.
JsLength(d) ==
  IF IsObjectDoc(d) THEN -1
  ELSE IF d.jsType = "array" THEN Len(d.elems)
  ELSE IF d.jsType = "string" THEN Len(d.str)
  ELSE -1

\* variants[0] (line 45) of an array or a string that has one.
JsFirst(d) == IF d.jsType = "array" THEN d.elems[1] ELSE StrDoc(<<d.str[1]>>)

\* ------------------------------------------------------- zod signatures
ZAny == [z |-> "any", shape |-> EmptyFields, optional |-> FALSE]
ZString == [z |-> "string", shape |-> EmptyFields, optional |-> FALSE]
ZNumber == [z |-> "number", shape |-> EmptyFields, optional |-> FALSE]
ZBoolean == [z |-> "boolean", shape |-> EmptyFields, optional |-> FALSE]
ZNull == [z |-> "null", shape |-> EmptyFields, optional |-> FALSE]
ZRecordAny == [z |-> "record", shape |-> EmptyFields, optional |-> FALSE]
ZObject(shape) == [z |-> "object", shape |-> shape, optional |-> FALSE]
ZOptional(s) == [s EXCEPT !.optional = TRUE]
ZEnum(values) == [z |-> "enum", shape |-> EmptyFields, optional |-> FALSE,
                  values |-> values]
ZArray(element) == [z |-> "array", shape |-> EmptyFields, optional |-> FALSE,
                    element |-> element]
ZUnion(variants) == [z |-> "union", shape |-> EmptyFields, optional |-> FALSE,
                     variants |-> variants]
ZDefault(inner, value) == [z |-> "default", shape |-> EmptyFields, optional |-> FALSE,
                           inner |-> inner, value |-> value]

\* The translator's other outcome: a TypeError raised while translating.
ZRaised == [z |-> "TypeError", shape |-> EmptyFields, optional |-> FALSE]
Raised(sig) == sig.z = "TypeError"

SeqToSet(s) == {s[i] : i \in 1..Len(s)}

\* jsonSchemaToZod with every declared property made optional: the
\* translator as it would be if the required set were ignored.
RECURSIVE jsonSchemaToZodNoRequired(_)
jsonSchemaToZodNoRequired(schema) ==
  IF ~IsObjectDoc(schema) THEN ZAny
  ELSE IF (Has(schema, "type") /\ schema.type = "object") \/ Has(schema, "properties") THEN
    LET props == IF Has(schema, "properties") THEN schema.properties ELSE EmptyFields
        shape == [k \in DOMAIN props |-> ZOptional(jsonSchemaToZodNoRequired(props[k]))]
    IN IF DOMAIN shape = {} THEN ZRecordAny ELSE ZObject(shape)
  ELSE IF Has(schema, "type") /\ schema.type = "string" THEN ZString
  ELSE IF Has(schema, "type") /\ schema.type \in {"number", "integer"} THEN ZNumber
  ELSE IF Has(schema, "type") /\ schema.type = "boolean" THEN ZBoolean
  ELSE IF Has(schema, "type") /\ schema.type = "null" THEN ZNull
  ELSE ZAny

RECURSIVE jsonSchemaToZod(_)

\* A union node that wraps its only alternative in a union of one.
UnionNodeNoCollapse(variants) ==
  LET n == JsLength(variants)
  IN IF n = 0 THEN ZAny
     ELSE IF ~IsArrayDoc(variants) THEN ZRaised
     ELSE LET zodSchemas == [i \in 1..n |-> jsonSchemaToZod(variants.elems[i])]
          IN IF \E i \in 1..n : Raised(zodSchemas[i]) THEN ZRaised
             ELSE ZUnion(zodSchemas)

\* Lines 42-50: a union node. With no alternative it is z.any(), with one it
\* is that alternative's own translation; otherwise variants.map(...) is
\* called, which only an array has (a TypeError for anything else).
UnionNode(variants) ==
  LET n == JsLength(variants)
  IN IF n = 0 THEN ZAny
     ELSE IF n = 1 THEN jsonSchemaToZod(JsFirst(variants))
     ELSE IF ~IsArrayDoc(variants) THEN ZRaised
     ELSE LET zodSchemas == [i \in 1..n |-> jsonSchemaToZod(variants.elems[i])]
          IN IF \E i \in 1..n : Raised(zodSchemas[i]) THEN ZRaised
             ELSE ZUnion(zodSchemas)

\* A field that is made optional whether or not it is required.
ObjectFieldAlwaysOptional(value, required) ==
  LET zodField == jsonSchemaToZod(value)
      field == ZOptional(zodField)
  IN IF Raised(zodField) THEN ZRaised
     ELSE IF value = Null THEN ZRaised
     ELSE IF IsObjectDoc(value) /\ Has(value, "default")
     THEN ZDefault(field, value.default)
     ELSE field

\* Lines 60-72: one declared property. It is optional unless required, and
\* gets its default when value.default is not undefined; reading .default of
\* null is a TypeError, of a string or a number it is undefined.
ObjectField(value, required) ==
  LET zodField == jsonSchemaToZod(value)
      field == IF required THEN zodField ELSE ZOptional(zodField)
  IN IF Raised(zodField) THEN ZRaised
     ELSE IF value = Null THEN ZRaised
     ELSE IF IsObjectDoc(value) /\ Has(value, "default")
     THEN ZDefault(field, value.default)
     ELSE field

\* An object node without declared children as an object of no fields.
ObjectNodeEmptyShape(schema) ==
  LET requiredFields == IF Has(schema, "required") THEN SeqToSet(schema.required) ELSE {}
      props == IF Has(schema, "properties") THEN schema.properties ELSE EmptyFields
      shape == [k \in DOMAIN props |-> ObjectField(props[k], k \in requiredFields)]
  IN IF \E k \in DOMAIN shape : Raised(shape[k]) THEN ZRaised
     ELSE ZObject(shape)

\* Lines 53-82: an object node; properties is an object when present.
ObjectNode(schema) ==
  LET requiredFields == IF Has(schema, "required") THEN SeqToSet(schema.required) ELSE {}
      props == IF Has(schema, "properties") THEN schema.properties ELSE EmptyFields
      shape == [k \in DOMAIN props |-> ObjectField(props[k], k \in requiredFields)]
  IN IF \E k \in DOMAIN shape : Raised(shape[k]) THEN ZRaised
     ELSE IF DOMAIN shape = {} THEN ZRecordAny
     ELSE ZObject(shape)

\* Lines 84-90: a string node; an enum list, the empty one too, is truthy.
StringNode(schema) == IF Has(schema, "enum") THEN ZEnum(schema.enum) ELSE ZString

\* Lines 100-102: an array node; items defaults to {}.
ArrayNode(schema) ==
  LET element == jsonSchemaToZod(IF TruthyKey(schema, "items") THEN schema.items
                                 ELSE EmptyFields)
  IN IF Raised(element) THEN ZRaised ELSE ZArray(element)

\* The translator taking the object branch on the type tag alone, and with
\* no fallback for a node that only declares properties.
jsonSchemaToZodTypeTagOnly(schema) ==
  IF ~IsObjectDoc(schema) THEN ZAny
  ELSE IF TruthyKey(schema, "oneOf") THEN UnionNode(schema.oneOf)
  ELSE IF TruthyKey(schema, "anyOf") THEN UnionNode(schema.anyOf)
  ELSE IF Has(schema, "type") /\ schema.type = "object" THEN ObjectNode(schema)
  ELSE IF Has(schema, "type") /\ schema.type = "string" THEN StringNode(schema)
  ELSE IF Has(schema, "type") /\ schema.type \in {"number", "integer"} THEN ZNumber
  ELSE IF Has(schema, "type") /\ schema.type = "boolean" THEN ZBoolean
  ELSE IF Has(schema, "type") /\ schema.type = "array" THEN ArrayNode(schema)
  ELSE IF Has(schema, "type") /\ schema.type = "null" THEN ZNull
  ELSE ZAny

\* Lines 36-115. An array document passes the typeof test of line 37 but has
\* none of the keys read afterwards, so it ends in z.any() as well. Lines
\* 109-112 cannot be reached: truthy properties are taken at line 53.
jsonSchemaToZod(schema) ==
  IF ~IsObjectDoc(schema) THEN ZAny
  ELSE IF TruthyKey(schema, "oneOf") THEN UnionNode(schema.oneOf)
  ELSE IF TruthyKey(schema, "anyOf") THEN UnionNode(schema.anyOf)
  ELSE IF (Has(schema, "type") /\ schema.type = "object") \/ Has(schema, "properties")
  THEN ObjectNode(schema)
  ELSE IF Has(schema, "type") /\ schema.type = "string" THEN StringNode(schema)
  ELSE IF Has(schema, "type") /\ schema.type \in {"number", "integer"} THEN ZNumber
  ELSE IF Has(schema, "type") /\ schema.type = "boolean" THEN ZBoolean
  ELSE IF Has(schema, "type") /\ schema.type = "array" THEN ArrayNode(schema)
  ELSE IF Has(schema, "type") /\ schema.type = "null" THEN ZNull
  ELSE ZAny

\* zod: an absent key is handed to the field's schema as undefined.
AcceptsUndefined(sig) == sig.optional \/ sig.z = "any"

Field(val, k) == IF k \in DOMAIN val.v THEN val.v[k] ELSE Absent

\* zod's safeParse(val).success. A default stands in for an absent value;
\* zod 3 then validates the default with the wrapped schema, zod 4 returns it
\* as it is (zodDefault says which zod is installed).
RECURSIVE Accepts(_, _)
Accepts(sig, val) ==
  IF sig.z = "default"
  THEN IF val.t = "undefined"
       THEN zodDefault = "returned" \/ Accepts(sig.inner, sig.value)
       ELSE Accepts(sig.inner, val)
  ELSE IF val.t = "undefined" /\ sig.z # "union" THEN AcceptsUndefined(sig)
  ELSE CASE sig.z = "any" -> TRUE
         [] sig.z = "string" -> val.t = "string"
         [] sig.z = "number" -> val.t = "number"
         [] sig.z = "boolean" -> val.t = "boolean"
         [] sig.z = "null" -> val.t = "null"
         [] sig.z = "enum" -> val.t = "string" /\ val.v \in SeqToSet(sig.values)
         [] sig.z = "record" -> val.t = "object"
         [] sig.z = "array" ->
              /\ val.t = "array"
              /\ \A i \in 1..Len(val.v) : Accepts(sig.element, val.v[i])
         [] sig.z = "union" ->
              \/ val.t = "undefined" /\ sig.optional
              \/ \E i \in 1..Len(sig.variants) : Accepts(sig.variants[i], val)
         [] sig.z = "object" ->
              /\ val.t = "object"
              /\ \A k \in DOMAIN sig.shape : Accepts(sig.shape[k], Field(val, k))
         [] OTHER -> FALSE

\* zod's parsed output for a value the signature accepts: z.object keeps the
\* declared keys only and fills in defaults, a union gives the output of its
\* first accepting alternative, the other signatures return the value.
RECURSIVE ParseArgs(_, _)
ParseArgs(sig, val) ==
  IF sig.z = "default"
  THEN IF val.t = "undefined"
       THEN IF zodDefault = "returned" THEN sig.value ELSE ParseArgs(sig.inner, sig.value)
       ELSE ParseArgs(sig.inner, val)
  ELSE IF val.t = "undefined" THEN val
  ELSE IF sig.z = "object"
  THEN LET out == [k \in DOMAIN sig.shape |-> ParseArgs(sig.shape[k], Field(val, k))]
       IN JObj([k \in {j \in DOMAIN sig.shape : out[j].t # "undefined"} |-> out[k]])
  ELSE IF sig.z = "array"
  THEN JArr([i \in 1..Len(val.v) |-> ParseArgs(sig.element, val.v[i])])
  ELSE IF sig.z = "union"
  THEN LET ok == {i \in 1..Len(sig.variants) : Accepts(sig.variants[i], val)}
           first == CHOOSE i \in ok : \A j \in ok : i <= j
       IN ParseArgs(sig.variants[first], val)
  ELSE val

\* ------------------------------------------------------- content items
\* A ContentItem; a field the item does not carry is "" (<<>> for text and
\* data).
\* A string payload is a sequence of tokens, so that the data-URI prefix and
\* the comma that ends it can be told from the encoded bytes.
NoData == <<>>
TextItem == [type |-> "text", text |-> <<"page loaded">>, data |-> NoData,
             mimeType |-> "", annotations |-> ""]
ImageUri == [type |-> "image", text |-> <<>>, data |-> <<"data:", "image/png;base64", ",", "QUJD">>,
             mimeType |-> "image/png", annotations |-> "a"]
ImageRaw == [type |-> "image", text |-> <<>>, data |-> <<"QUJD">>,
             mimeType |-> "", annotations |-> ""]
ImageBadUri == [type |-> "image", text |-> <<>>, data |-> <<"data:", "QUJD">>,
                mimeType |-> "image/png", annotations |-> ""]
ImageNoData == [type |-> "image", text |-> <<>>, data |-> NoData,
                mimeType |-> "image/png", annotations |-> ""]
AudioItem == [type |-> "audio", text |-> <<>>, data |-> <<"UklG">>,
              mimeType |-> "audio/wav", annotations |-> ""]
ContentItems == {TextItem, ImageUri, ImageRaw, ImageBadUri, ImageNoData, AudioItem}

SeqsUpTo(S, n) == UNION {[1..k -> S] : k \in 0..n}

\* What the provider may answer to callTool for a tool.
ProviderContents(name) ==
  IF name = "browser_screenshot" THEN {<<>>, <<TextItem>>, <<ImageUri>>, <<ImageBadUri>>}
  ELSE {<<TextItem>>, <<ImageRaw>>}

\* The answers tried where the process lifecycle, not the content, is
\* looked at.
ShellContents(name) ==
  IF name = "browser_screenshot" THEN {<<ImageUri>>} ELSE {<<TextItem>>}

Truthy(str) == str # <<>>

StartsWithData(d) == Len(d) > 0 /\ d[1] = "data:"

\* imageData.split(',')[1]: the part between the first comma and the next
\* one; undefined when the string holds no comma.
CommaAt(d) == {i \in 1..Len(d) : d[i] = ","}
FirstComma(d) == CHOOSE i \in CommaAt(d) : \A j \in CommaAt(d) : i <= j
SplitSecond(d) ==
  IF CommaAt(d) = {} THEN Undefined
  ELSE LET c == FirstComma(d)
           later == {j \in CommaAt(d) : j > c}
           stop == IF later = {} THEN Len(d) + 1
                   ELSE CHOOSE j \in later : \A k \in later : j <= k
       IN [jsString |-> SubSeq(d, c + 1, stop - 1)]

\* Lines 165-178: strip the data-URI prefix, then Buffer.from(.., 'base64').
\* Buffer.from(undefined) raises a TypeError.
DecodeImage(data) ==
  LET stripped == IF StartsWithData(data) THEN SplitSecond(data) ELSE [jsString |-> data]
  IN IF Has(stripped, "jsType") THEN [raised |-> TRUE, buffer |-> <<>>]
     ELSE [raised |-> FALSE, buffer |-> <<"base64-decoded">> \o stripped.jsString]

\* Lines 195-200: the item after a successful summary.
Summarized(item, summaryText) ==
  [item EXCEPT !.type = "text", !.text = <<"[Screenshot summary] ", summaryText>>,
               !.data = NoData, !.mimeType = "", !.annotations = ""]

\* A catch block that leaves the item as it was.
FallbackKeepsItem(item) == item

\* Lines 205-208: the item after a failed summary.
Fallback(item) ==
  [item EXCEPT !.type = "text", !.text = <<"[Screenshot taken but could not be summarized]">>,
               !.data = NoData]

\* ------------------------------------------------------- tools
\* The descriptors the provider reports from listTools.
ProviderTools ==
  << [name |-> "browser_screenshot", description |-> "Take a screenshot"],
     [name |-> "search", description |-> "",
      inputSchema |-> [type |-> "object",
                       properties |-> [q |-> [type |-> "string"]],
                       required |-> <<"q">>]] >>

\* Lines 142-144: the signature a proxy validates with.
ToolParameters(mcpTool) ==
  IF Has(mcpTool, "inputSchema") THEN jsonSchemaToZod(mcpTool.inputSchema)
  ELSE ZObject(EmptyFields)

\* Lines 141-148: one proxy per descriptor name; a later descriptor of the
\* same name replaces the earlier one.
LastIndexOf(list, n) ==
  CHOOSE i \in 1..Len(list) :
    list[i].name = n /\ \A j \in 1..Len(list) : list[j].name = n => j <= i
BuildTools(list) ==
  [n \in {list[i].name : i \in 1..Len(list)} |->
     LET mcpTool == list[LastIndexOf(list, n)]
     IN [name |-> mcpTool.name,
         description |-> IF mcpTool.description # "" THEN mcpTool.description
                         ELSE mcpTool.name,
         parameters |-> ToolParameters(mcpTool)]]
NoTools == <<>>

\* Line 142: a descriptor whose inputSchema makes jsonSchemaToZod raise; the
\* error leaves client.tools().
ToolsRaises(list) ==
  \E i \in 1..Len(list) :
    Has(list[i], "inputSchema") /\ Raised(jsonSchemaToZod(list[i].inputSchema))

\* The argument values the model may send to a tool: objects, and for the
\* step loop also a value that is no object.
ObjectArgs(name) ==
  IF name = "search" THEN {JObj([q |-> JStr("x")]), JObj(EmptyFields)}
  ELSE {JObj(EmptyFields)}
ModelArgs(name) == ObjectArgs(name) \cup {JStr("not an object")}
ShellRequests(toolset) ==
  UNION {{[toolName |-> n, args |-> a] : a \in ObjectArgs(n)} : n \in DOMAIN toolset}
Requests(toolset) ==
  UNION {{[toolName |-> n, args |-> a] : a \in ModelArgs(n)} : n \in DOMAIN toolset}

\* ------------------------------------------------------- options
\* --max-steps is a string of decimal digits; parseInt reads it in base 10.
RECURSIVE ParseInt(_)
ParseInt(digits) ==
  IF digits = <<>> THEN 0
  ELSE 10 * ParseInt(SubSeq(digits, 1, Len(digits) - 1)) + digits[Len(digits)]

\* The input lines a user may type; a line is a sequence of tokens and " "
\* is white space.
Lines == {<<" ", "exit">>, <<" ">>, <<"go", " ">>}
RECURSIVE TrimLeft(_)
TrimLeft(line) ==
  IF line # <<>> /\ Head(line) = " " THEN TrimLeft(Tail(line)) ELSE line
RECURSIVE TrimRight(_)
TrimRight(line) ==
  IF line # <<>> /\ line[Len(line)] = " " THEN TrimRight(SubSeq(line, 1, Len(line) - 1))
  ELSE line
\* trimStart() in place of trim().
TrimStartOnly(line) == TrimLeft(line)

\* Line 327: line.trim().
Trim(line) == TrimRight(TrimLeft(line))

\* ------------------------------------------------------- persistence
\* The bounds of the persistence runs.
MaxSaves == 2       \* most transactions on the store
MaxBatch == 2       \* most items in one batch

\* Texts are sequences of characters, messages sequences of words.
\* item.k, undefined when the item has no k; x || null; x || undefined;
\* message.includes(word).
Get(d, k) == IF Has(d, k) THEN d[k] ELSE Undefined
OrNull(d) == IF TruthyDoc(d) THEN d ELSE Null
OrUndefined(d) == IF TruthyDoc(d) THEN d ELSE Undefined
Includes(message, word) == \E i \in 1..Len(message) : message[i] = word

\* The table with no row, the id sequence at its start.
EmptyStore == [rows |-> {}, nextId |-> 1, now |-> 0]
NoCall == [op |-> "none"]

\* Line 4, let pool = null, and the library before any Pool is constructed:
\* ends[p] counts the end() calls on pool p, closing holds the closeDatabase
\* calls suspended at await pool.end().
NoPools ==
  [created |-> 0, ends |-> <<>>, closing |-> <<>>, closes |-> 0,
   acquired |-> 0, released |-> 0, operations |-> 0]

\* The generated column content_hash: the digest of title || '|' || url with
\* NULL read as ''. sha256 and the hex encoding are one-to-one as far as any
\* run can tell, so the fingerprint is kept as the text that is digested.
ContentHash(title, url) ==
  LET Coalesce(x) == IF x = Null THEN <<>> ELSE x.str
  IN Coalesce(title) \o <<"|">> \o Coalesce(url)

\* A transaction starts: CURRENT_TIMESTAMP is its start time, later than
\* that of every earlier transaction.
Begin(db) == [db EXCEPT !.now = @ + 1]

\* The tool's reply to an error that names a duplicate.
DuplicateMessage == <<"Item", "already", "exists", "in", "database", "(duplicate)">>

\* INSERT INTO agent_outputs ... ON CONFLICT (content_hash) DO UPDATE SET
\* updated_at = CURRENT_TIMESTAMP RETURNING ...: the statement takes an id
\* from the sequence, then fails on a NULL title, or stamps the row that has
\* the fingerprint, or adds a row.
Insert(db, title, description, url, category) ==
  LET hash == ContentHash(title, url)
      hit == {r \in db.rows : r.content_hash = hash}
      used == [db EXCEPT !.nextId = @ + 1]
  IN IF title = Null
     THEN [db |-> used, row |-> Null,
           error |-> <<"null", "value", "in", "column", "title", "violates", "not-null",
                       "constraint">>]
     ELSE IF hit # {}
     THEN LET old == CHOOSE r \in hit : TRUE
              new == [old EXCEPT !.updated_at = db.now]
          IN [db |-> [used EXCEPT !.rows = (@ \ {old}) \cup {new}],
              error |-> <<>>, row |-> new]
     ELSE LET new == [id |-> db.nextId, title |-> title, description |-> description,
                      url |-> url, category |-> category,
                      created_at |-> db.now, updated_at |-> db.now,
                      content_hash |-> hash]
          IN [db |-> [used EXCEPT !.rows = @ \cup {new}], error |-> <<>>, row |-> new]

\* RETURNING id, title, description, url, category, created_at, updated_at.
Returning(row) == [k \in DOMAIN row \ {"content_hash"} |-> row[k]]

\* saveOutput: the title check, then one statement in its own transaction.
saveOutput(db, item) ==
  IF ~TruthyDoc(Get(item, "title"))
  THEN [db |-> db, outcome |-> "threw", message |-> <<"Title", "is", "required">>,
        value |-> Null]
  ELSE LET res == Insert(Begin(db), item.title, OrNull(Get(item, "description")),
                         OrNull(Get(item, "url")), OrNull(Get(item, "category")))
       IN IF res.error # <<>>
          THEN [db |-> res.db, outcome |-> "threw", message |-> res.error, value |-> Null]
          ELSE [db |-> res.db, outcome |-> "returned", message |-> <<>>,
                value |-> Returning(res.row)]

\* saveOutputBatch's loop from item i on. A statement that fails aborts the
\* transaction, and the server then refuses every later statement; each
\* failure is caught and counted.
RECURSIVE BatchLoop(_, _, _)
BatchLoop(acc, items, i) ==
  IF i > Len(items) THEN acc
  ELSE LET item == items[i]
           failedWith(db, message) ==
             [acc EXCEPT !.db = db, !.aborted = TRUE, !.results.failed = @ + 1,
                         !.results.errors =
                           Append(@, [item |-> Get(item, "title"), error |-> message])]
       IN IF acc.aborted
          THEN BatchLoop(failedWith(acc.db, <<"current", "transaction", "is", "aborted">>),
                         items, i + 1)
          ELSE LET res == Insert(acc.db, IF Has(item, "title") THEN item.title ELSE Null,
                                 OrNull(Get(item, "description")), OrNull(Get(item, "url")),
                                 OrNull(Get(item, "category")))
               IN IF res.error # <<>>
                  THEN BatchLoop(failedWith(res.db, res.error), items, i + 1)
                  ELSE IF res.row.created_at = res.row.updated_at
                  THEN BatchLoop([acc EXCEPT !.db = res.db, !.results.saved = @ + 1],
                                 items, i + 1)
                  ELSE BatchLoop([acc EXCEPT !.db = res.db, !.results.updated = @ + 1],
                                 items, i + 1)

\* saveOutputBatch: the array check, BEGIN, the loop, COMMIT. COMMIT of an
\* aborted transaction rolls it back without an error; the ids it took from
\* the sequence stay taken.
saveOutputBatch(db, items) ==
  IF ~IsArrayDoc(items) \/ Len(items.elems) = 0
  THEN [db |-> db, outcome |-> "threw", value |-> Null,
        message |-> <<"Items", "must", "be", "a", "non-empty", "array">>]
  ELSE LET acc == BatchLoop([db |-> Begin(db), aborted |-> FALSE,
                             results |-> [saved |-> 0, updated |-> 0, failed |-> 0,
                                          errors |-> <<>>]],
                            items.elems, 1)
       IN [db |-> IF acc.aborted THEN [acc.db EXCEPT !.rows = db.rows] ELSE acc.db,
           outcome |-> "returned", message |-> <<>>, value |-> acc.results]

\* The saveItemToDatabase tool: empty strings become undefined, saveOutput
\* is awaited, and an error whose message has the word duplicate is turned
\* into a reply.
saveItemToDatabase(db, args) ==
  LET res == saveOutput(db, [title |-> args.title,
                             description |-> OrUndefined(args.description),
                             url |-> OrUndefined(args.url),
                             category |-> OrUndefined(args.category)])
  IN IF res.outcome = "returned"
     THEN [res EXCEPT !.value = [success |-> TRUE,
                                 message |-> <<"Item", "saved", "successfully">>,
                                 item |-> @]]
     ELSE IF Includes(res.message, "duplicate")
     THEN [res EXCEPT !.outcome = "returned",
                      !.value = [success |-> FALSE, message |-> DuplicateMessage,
                                 error |-> res.message]]
     ELSE res

\* ------------------------------------------------------- pool and clients
MaxPools == 2        \* most Pool objects constructed
MaxCloses == 2       \* most closeDatabase calls
MaxOperations == 2   \* most operations that may ask the pool for a client

\* Lines 9-36: initializeDatabase returns the pool it holds, or constructs a
\* Pool, keeps it and returns it.
initializeDatabase(held, lib) ==
  IF held # 0 THEN [pool |-> held, pg |-> lib, value |-> held]
  ELSE [pool |-> lib.created + 1,
        pg |-> [lib EXCEPT !.created = @ + 1, !.ends = Append(@, 0)],
        value |-> lib.created + 1]

\* Lines 40-45: getPool.
getPool(held, lib) ==
  IF held = 0 THEN initializeDatabase(held, lib)
  ELSE [pool |-> held, pg |-> lib, value |-> held]

\* The statements that may raise and the error each raises.
FaultSets ==
  {{}, {"connect"}, {"BEGIN"}, {"query"}, {"COMMIT"}, {"readFile"},
   {"BEGIN", "ROLLBACK"}, {"COMMIT", "ROLLBACK"}, {"query", "COMMIT"}}
FaultError(statement) == <<statement, "failed">>

\* What the code between connect and release leaves: the store, how it
\* ended, and the statements it sent.
Returned(db, value, queries) ==
  [db |-> db, outcome |-> "returned", message |-> <<>>, value |-> value,
   queries |-> queries]
Threw(db, message, queries) ==
  [db |-> db, outcome |-> "threw", message |-> message, value |-> Null,
   queries |-> queries]

\* An exit before getPool().connect(): no pool is asked for, no client taken.
NoClient(r) == r @@ [pools |-> 0, acquired |-> 0, released |-> 0]

\* await getPool().connect() rejects: the operation throws with no client.
ConnectRejects(db) ==
  Threw(db, FaultError("connect"), <<>>) @@ [pools |-> 1, acquired |-> 0, released |-> 0]

\* const client = await getPool().connect(), followed by the try block r.
Acquired(r) == r @@ [pools |-> 1, acquired |-> 1, released |-> 0]

\* A release written as the last statement of the try block.
ReleaseOnReturn(r) ==
  IF r.outcome = "returned" THEN [r EXCEPT !.released = @ + 1] ELSE r

\* finally { client.release(); }: whatever the try block did.
Release(r) == [r EXCEPT !.released = @ + 1]

\* saveOutput that asks for its client before it looks at the title.
saveOutputConnectsFirst(db, item, faults) ==
  IF "connect" \in faults THEN ConnectRejects(db)
  ELSE IF ~TruthyDoc(Get(item, "title"))
  THEN Release(Acquired(Threw(db, <<"Title", "is", "required">>, <<>>)))
  ELSE IF "query" \in faults
  THEN Release(Acquired(Threw(db, FaultError("query"), <<"INSERT">>)))
  ELSE LET res == saveOutput(db, item)
       IN Release(Acquired([db |-> res.db, outcome |-> res.outcome,
                            message |-> res.message, value |-> res.value,
                            queries |-> <<"INSERT">>]))

\* Lines 69-92: saveOutput with its client.
saveOutputWithClient(db, item, faults) ==
  IF ~TruthyDoc(Get(item, "title"))
  THEN NoClient(Threw(db, <<"Title", "is", "required">>, <<>>))
  ELSE IF "connect" \in faults THEN ConnectRejects(db)
  ELSE IF "query" \in faults
  THEN Release(Acquired(Threw(db, FaultError("query"), <<"INSERT">>)))
  ELSE LET res == saveOutput(db, item)
       IN Release(Acquired([db |-> res.db, outcome |-> res.outcome,
                            message |-> res.message, value |-> res.value,
                            queries |-> <<"INSERT">>]))

\* Lines 106-147: the transaction of saveOutputBatch. An error of BEGIN or
\* COMMIT is caught, ROLLBACK is sent and the error thrown again (the error
\* of ROLLBACK when that raises too); an error of an item's statement is
\* caught inside the loop and counted.
saveOutputBatchTransaction(db, items, faults) ==
  LET n == Len(items.elems)
      inserts == [i \in 1..n |-> "INSERT"]
      caught(statement, queries) ==
        Threw(db, FaultError(IF "ROLLBACK" \in faults THEN "ROLLBACK" ELSE statement),
              queries \o <<"ROLLBACK">>)
  IN IF "BEGIN" \in faults THEN caught("BEGIN", <<"BEGIN">>)
     ELSE IF "COMMIT" \in faults
     THEN caught("COMMIT", <<"BEGIN">> \o inserts \o <<"COMMIT">>)
     ELSE IF "query" \in faults
     THEN Returned(db,
                   [saved |-> 0, updated |-> 0, failed |-> n,
                    errors |-> [i \in 1..n |-> [item |-> Get(items.elems[i], "title"),
                                                error |-> FaultError("query")]]],
                   <<"BEGIN">> \o inserts \o <<"COMMIT">>)
     ELSE LET res == saveOutputBatch(db, items)
          IN Returned(res.db, res.value, <<"BEGIN">> \o inserts \o <<"COMMIT">>)

\* Lines 100-151: saveOutputBatch with its client.
saveOutputBatchWithClient(db, items, faults) ==
  IF ~IsArrayDoc(items) \/ Len(items.elems) = 0
  THEN NoClient(Threw(db, <<"Items", "must", "be", "a", "non-empty", "array">>, <<>>))
  ELSE IF "connect" \in faults THEN ConnectRejects(db)
  ELSE Release(Acquired(saveOutputBatchTransaction(db, items, faults)))

\* Lines 160-178: getRecentOutputs. Every row of a run is within the days
\* asked for; LIMIT keeps the newest rows.
getRecentOutputs(db, limit, faults) ==
  IF "connect" \in faults THEN ConnectRejects(db)
  ELSE IF "query" \in faults
  THEN Release(Acquired(Threw(db, FaultError("query"), <<"SELECT">>)))
  ELSE LET newest ==
             CHOOSE S \in SUBSET db.rows :
               /\ Cardinality(S) = IF Cardinality(db.rows) < limit
                                   THEN Cardinality(db.rows) ELSE limit
               /\ \A r \in S, q \in db.rows \ S : r.created_at >= q.created_at
       IN Release(Acquired(Returned(db, {Returning(r) : r \in newest}, <<"SELECT">>)))

\* Lines 184-200: itemExists.
itemExists(db, url, faults) ==
  IF ~TruthyDoc(url) THEN NoClient(Returned(db, FALSE, <<>>))
  ELSE IF "connect" \in faults THEN ConnectRejects(db)
  ELSE IF "query" \in faults
  THEN Release(Acquired(Threw(db, FaultError("query"), <<"SELECT">>)))
  ELSE Release(Acquired(Returned(db, \E r \in db.rows : r.url = url, <<"SELECT">>)))

\* Lines 206-228: initializeSchema. The schema file creates what is not
\* there yet and leaves the rows alone; an error is logged and thrown again.
initializeSchema(db, faults) ==
  IF "connect" \in faults THEN ConnectRejects(db)
  ELSE IF "readFile" \in faults
  THEN Release(Acquired(Threw(db, FaultError("readFile"), <<>>)))
  ELSE IF "query" \in faults
  THEN Release(Acquired(Threw(db, FaultError("query"), <<"schema.sql">>)))
  ELSE Release(Acquired(Returned(db, Undefined, <<"schema.sql">>)))

\* Lines 233-245: testConnection; connect is outside its try block.
testConnection(db, faults) ==
  IF "connect" \in faults THEN ConnectRejects(db)
  ELSE IF "query" \in faults
  THEN Release(Acquired(Returned(db, FALSE, <<"SELECT NOW()">>)))
  ELSE Release(Acquired(Returned(db, TRUE, <<"SELECT NOW()">>)))

\* ------------------------------------------------------- the sanitizer
\* sanitizeJsonSchema gives [out, arg]: what it returns (TypeError when it
\* raises) and its argument as the call leaves it. A schema document is a
\* tree, so an object below the argument is shared by the argument and its
\* copy and by nothing else.
TypeError == [jsType |-> "raised"]
Put(d, k, v) == [j \in DOMAIN d \cup {k} |-> IF j = k THEN v ELSE d[j]]
Remove(d, k) == [j \in DOMAIN d \ {k} |-> d[j]]
IndexKey(i) == CASE i = 1 -> "0" [] i = 2 -> "1" [] i = 3 -> "2" [] OTHER -> "n"
HasType(d) == Has(d, "type") /\ d.type # ""

\* { ...schema }: the own keys of an object; of an array, its indices.
Spread(schema) ==
  IF IsArrayDoc(schema)
  THEN [k \in {IndexKey(i) : i \in 1..Len(schema.elems)} |->
          schema.elems[CHOOSE i \in 1..Len(schema.elems) : IndexKey(i) = k]]
  ELSE schema

\* const sanitized = schema: the function working on its argument itself.
CopyByReference(schema) ==
  [sanitized |-> Spread(schema), arg |-> schema, alias |-> TRUE, raised |-> FALSE]

\* Line 40, const sanitized = { ...schema }: a new object that shares the
\* values of its keys with the argument.
Copy(schema) ==
  [sanitized |-> Spread(schema), arg |-> schema, alias |-> FALSE, raised |-> FALSE]

\* A TypeError; delete sanitized[k]; sanitized[k] = the result of the nested
\* call c, whose argument is the value the argument has at k.
Failed(st) == [st EXCEPT !.raised = TRUE]
Deleted(st, k) ==
  [st EXCEPT !.sanitized = Remove(@, k),
             !.arg = IF st.alias THEN Remove(@, k) ELSE @]
Assigned(st, k, out, arg) ==
  [st EXCEPT !.sanitized = Put(@, k, out),
             !.arg = IF st.alias THEN Put(@, k, out) ELSE Put(@, k, arg)]

RECURSIVE sanitizeJsonSchema(_)

\* Lines 42-54: additionalProperties. Reading .type of null is a TypeError;
\* an array is an object without a type.
SanitizeAdditionalProperties(st) ==
  IF ~Has(st.sanitized, "additionalProperties") THEN st
  ELSE LET ap == st.sanitized.additionalProperties
       IN IF ap = Undefined THEN st
          ELSE IF ap = Null THEN Failed(st)
          ELSE IF IsArrayDoc(ap) \/ (IsObjectDoc(ap) /\ ~HasType(ap))
          THEN Deleted(st, "additionalProperties")
          ELSE IF ap = BoolDoc(TRUE) THEN Deleted(st, "additionalProperties")
          ELSE IF ap = BoolDoc(FALSE) THEN st
          ELSE IF IsObjectDoc(ap)
          THEN LET c == sanitizeJsonSchema(ap)
               IN IF c.out = TypeError THEN Failed(st)
                  ELSE Assigned(st, "additionalProperties", c.out, c.arg)
          ELSE st

\* Lines 57-64: properties, an object when present.
SanitizeProperties(st) ==
  IF st.raised \/ ~TruthyKey(st.sanitized, "properties") THEN st
  ELSE LET props == st.sanitized.properties
           c == [key \in DOMAIN props |-> sanitizeJsonSchema(props[key])]
       IN IF \E key \in DOMAIN props : c[key].out = TypeError THEN Failed(st)
          ELSE Assigned(st, "properties", [key \in DOMAIN props |-> c[key].out],
                        [key \in DOMAIN props |-> c[key].arg])

\* Lines 67-69: items.
SanitizeItems(st) ==
  IF st.raised \/ ~TruthyKey(st.sanitized, "items") THEN st
  ELSE LET c == sanitizeJsonSchema(st.sanitized.items)
       IN IF c.out = TypeError THEN Failed(st)
          ELSE Assigned(st, "items", c.out, c.arg)

\* Lines 72-80: oneOf, anyOf, allOf; only an array has map.
SanitizeList(st, k) ==
  IF st.raised \/ ~TruthyKey(st.sanitized, k) THEN st
  ELSE IF ~IsArrayDoc(st.sanitized[k]) THEN Failed(st)
  ELSE LET elems == st.sanitized[k].elems
           c == [i \in 1..Len(elems) |-> sanitizeJsonSchema(elems[i])]
       IN IF \E i \in 1..Len(elems) : c[i].out = TypeError THEN Failed(st)
          ELSE Assigned(st, k, ArrayDoc([i \in 1..Len(elems) |-> c[i].out]),
                        ArrayDoc([i \in 1..Len(elems) |-> c[i].arg]))

\* Lines 35-83.
sanitizeJsonSchema(schema) ==
  IF ~(IsObjectDoc(schema) \/ IsArrayDoc(schema)) THEN [out |-> schema, arg |-> schema]
  ELSE LET st == SanitizeList(SanitizeList(SanitizeList(
                   SanitizeItems(SanitizeProperties(SanitizeAdditionalProperties(
                     Copy(schema)))), "oneOf"), "anyOf"), "allOf")
       IN [out |-> IF st.raised THEN TypeError ELSE st.sanitized, arg |-> st.arg]

\* ------------------------------------------------------- the process
PromptTask == [jsString |-> <<"task">>]
Running == exit.cause = "running"
NotExited == [cause |-> "running", code |-> 0, at |-> ""]

IdleRun ==
  [gen |-> "idle", outcome |-> "none", failure |-> "none", prompt |-> <<>>,
   budget |-> 0, round |-> 0, calls |-> <<>>, idx |-> 0, results |-> <<>>,
   steps |-> <<>>, finishReason |-> "", content |-> <<>>, item |-> 0,
   modelCalls |-> 0, requests |-> 0, dispatches |-> <<>>, auxCalls |-> <<>>, stepLog |-> <<>>,
   provided |-> <<>>, auxOutcomes |-> <<>>]

\* The top level without the key check.
ApiKeyNeverMissing(opts, e) == FALSE

\* Lines 27-31: neither --api-key nor OPENAI_API_KEY holds a non-empty string.
ApiKeyMissing(opts, e) ==
  /\ ~(Has(opts, "apiKey") /\ Truthy(opts.apiKey))
  /\ ~(Has(e, "OPENAI_API_KEY") /\ Truthy(e.OPENAI_API_KEY))

\* The state once the module's top level has run (lines 11-33 and 391-407):
\* the command line is parsed and, unless the key check has ended the process
\* at line 30, main() has been called and awaits the connection; with the
\* provider and the installed zod the process will meet.
Booted(opts, envs, descriptors, zods) ==
  /\ options \in opts
  /\ env \in envs
  /\ store = EmptyStore
  /\ last = NoCall
  /\ pool = 0
  /\ pg = NoPools
  /\ provider \in descriptors
  /\ zodDefault \in zods
  /\ mainpc = IF ApiKeyMissing(options, env) THEN "unstarted" ELSE "connect"
  /\ client = "null"
  /\ connState = "none"
  /\ mcpCloseCalls = 0
  /\ tools = NoTools
  /\ exit = IF ApiKeyMissing(options, env)
            THEN [cause |-> "noApiKey", code |-> 1, at |-> "startup"]
            ELSE NotExited
  /\ handlers = <<>>
  /\ rl = [pending |-> <<>>, arrived |-> 0, eof |-> FALSE, closed |-> FALSE]
  /\ run = IdleRun
  /\ activeRuns = 0
  /\ runsStarted = 0

\* The same with the key taken from the environment.
KeyInEnv == [OPENAI_API_KEY |-> <<"sk">>]
Started(opts, descriptors, zods) == Booted(opts, {KeyInEnv}, descriptors, zods)

\* ------------------------------------------------------- main's control flow
\* The part of the state main's continuations change.
MainState ==
  [mainpc |-> mainpc, exit |-> exit, mcpCloseCalls |-> mcpCloseCalls,
   connState |-> connState]
SetMain(m) ==
  /\ mainpc' = m.mainpc
  /\ exit' = m.exit
  /\ mcpCloseCalls' = m.mcpCloseCalls
  /\ connState' = m.connState

\* Lines 221-225: the session's close().
SessionClose(m) == [m EXCEPT !.mcpCloseCalls = @ + 1, !.connState = "closed"]

\* Lines 381-387: main's finally block, up to its await.
Finally(m) ==
  IF client # "null" THEN [SessionClose(m) EXCEPT !.mainpc = "closing"]
  ELSE [m EXCEPT !.mainpc = "done"]

\* Lines 378-380: main's catch block; process.exit ends the process there.
Fatal(m, where) == [m EXCEPT !.exit = [cause |-> "fatal", code |-> 1, at |-> where]]

\* main with a catch that tries the connection again.
ConnectFailureRetries(m) == [m EXCEPT !.connState = "failed"]

\* Lines 227-230 and 378-380: a failed connection is rethrown to main, whose
\* catch exits.
ConnectFailure(m) == Fatal([m EXCEPT !.connState = "failed"], "connect")

\* Lines 361-364: the headless-without-prompt exit.
HeadlessNoPrompt(m) ==
  [m EXCEPT !.exit = [cause |-> "headlessNoPrompt", code |-> 1, at |-> "main"]]

\* main entering interactive mode after its prompt in every mode.
AfterExecutePromptAlwaysInteractive(m, outcome) == [m EXCEPT !.mainpc = "awaitLine"]

\* Lines 366-373: what main does once its own executePrompt has settled.
AfterExecutePrompt(m, outcome) ==
  IF outcome = "threw" THEN Fatal(m, "executePrompt")
  ELSE IF options.headless THEN Finally(m)
  ELSE [m EXCEPT !.mainpc = "awaitLine"]

\* interactiveMode without its try/catch: the error leaves the loop.
InteractiveAfterNoCatch(m, outcome) ==
  IF outcome = "threw" THEN Fatal(m, "interactiveMode")
  ELSE [m EXCEPT !.mainpc = "awaitLine"]

\* Lines 340-346: interactiveMode once the line's executePrompt has settled.
InteractiveAfter(m, outcome) == [m EXCEPT !.mainpc = "awaitLine"]

\* executePrompt with a catch that swallows the error.
ExecutePromptSwallows(gen) == "returned"

\* Lines 307-311: executePrompt returns the response, or logs and rethrows.
ExecutePromptSettle(gen) == IF gen = "resolved" THEN "returned" ELSE "threw"

\* The budget one too large.
StepBudgetOffByOne(maxSteps) == ParseInt(maxSteps) + 1

\* Line 269: maxSteps: parseInt(maxSteps).
StepBudget(maxSteps) == ParseInt(maxSteps)

\* Lines 233-276: executePrompt up to its await of generateText, whose first
\* model invocation is then in flight.
StartRun(prompt) ==
  /\ run' = [IdleRun EXCEPT !.gen = "model", !.prompt = prompt,
                            !.budget = StepBudget(options.maxSteps),
                            !.round = 1, !.modelCalls = 1]
  /\ activeRuns' = activeRuns + 1
  /\ runsStarted' = runsStarted + 1

\* ------------------------------------------------------- the step loop
ExhaustionReason == "tool-calls"
CompletionReason == "stop"

\* The callback that reports a round only when it made tool calls.
OnStepFinishToolRoundsOnly(log, step) ==
  IF step.toolCalls = <<>> THEN log
  ELSE Append(log, [stepNumber |-> step.index,
                    toolCalls |-> [i \in 1..Len(step.toolCalls) |-> step.toolCalls[i].toolName],
                    toolResults |-> [i \in 1..Len(step.toolResults) |-> step.toolResults[i].toolName],
                    text |-> step.text])

\* Lines 277-294: onStepFinish writes the round to the console: its number,
\* its tool calls in order, its tool results in order, its text.
OnStepFinish(log, step) ==
  Append(log, [stepNumber |-> step.index,
               toolCalls |-> [i \in 1..Len(step.toolCalls) |-> step.toolCalls[i].toolName],
               toolResults |-> [i \in 1..Len(step.toolResults) |-> step.toolResults[i].toolName],
               text |-> step.text])

\* The end of a round: its StepRecord is appended and reported, then the
\* loop completes (no tool calls), stops (budget reached) or goes on.
EndRound(r) ==
  LET step == [index |-> r.round, toolCalls |-> r.calls, toolResults |-> r.results,
               text |-> r.calls = <<>>]
      r1 == [r EXCEPT !.steps = Append(@, step), !.stepLog = OnStepFinish(@, step)]
  IN IF r.calls = <<>>
     THEN [r1 EXCEPT !.gen = "resolved", !.finishReason = CompletionReason]
     ELSE IF r.round >= r.budget
     THEN [r1 EXCEPT !.gen = "resolved", !.finishReason = ExhaustionReason]
     ELSE [r1 EXCEPT !.gen = "model", !.round = @ + 1, !.calls = <<>>,
                     !.results = <<>>, !.idx = 0, !.modelCalls = @ + 1]

\* A failed tool result, as the loop hands it back to the model.
ToolError(toolName) == [toolName |-> toolName, content |-> <<>>, isError |-> TRUE]

\* execute reading a loop variable shared by all proxies: the dispatch goes
\* out under the name of the last descriptor.
ExecuteDispatchLastDescriptor(proxy, args) ==
  [name |-> provider[Len(provider)].name, arguments |-> args]

\* Lines 149-153: execute up to its await: the dispatch to the provider,
\* under the name of the descriptor the proxy was built from.
ExecuteDispatch(proxy, args) == [name |-> proxy.name, arguments |-> args]

\* The loop takes the round's next request: it validates the arguments
\* against the proxy's signature; a rejected request gets a failed result
\* and the next one is taken, an accepted one is handed to execute, which
\* suspends in callTool. After the last request the round ends.
RECURSIVE NextRequest(_)
NextRequest(r) ==
  IF r.idx >= Len(r.calls) THEN EndRound(r)
  ELSE LET i == r.idx + 1
           req == r.calls[i]
           proxy == tools[req.toolName]
       IN IF ~Accepts(proxy.parameters, req.args)
          THEN NextRequest([r EXCEPT !.idx = i,
                                     !.results = Append(@, ToolError(req.toolName))])
          ELSE [r EXCEPT !.idx = i, !.gen = "callTool",
                         !.dispatches = Append(@, ExecuteDispatch(proxy,
                                           ParseArgs(proxy.parameters, req.args)))]

\* execute has returned content: the loop records the result and takes the
\* next request.
ToolReturned(r, content) ==
  NextRequest([r EXCEPT !.results = Append(@, [toolName |-> r.calls[r.idx].toolName,
                                              content |-> content, isError |-> FALSE]),
                        !.content = <<>>, !.item = 0])

\* execute has raised. The specification gives the loop no rule for this
\* (section 7 has the proxy absorb the failure), so both things a loop can
\* do are possible: hand the error on to its caller, or record a failed
\* result and go on.
ExecuteRaised(r, handling) ==
  IF handling = "rethrow"
  THEN [r EXCEPT !.gen = "rejected", !.failure = "execute"]
  ELSE NextRequest([r EXCEPT !.results = Append(@, ToolError(r.calls[r.idx].toolName)),
                             !.failure = "execute"])

\* ------------------------------------------------------- execute
\* The item loop taking every item that carries data for an image.
RECURSIVE PostProcessAnyData(_, _)
PostProcessAnyData(content, done) ==
  IF done >= Len(content)
  THEN [content |-> content, item |-> done, awaiting |-> FALSE,
        image |-> <<>>, mimeType |-> ""]
  ELSE LET i == done + 1
           item == content[i]
       IN IF Truthy(item.data)
          THEN LET decoded == DecodeImage(item.data)
               IN IF decoded.raised
                  THEN PostProcessAnyData([content EXCEPT ![i] = Fallback(item)], i)
                  ELSE [content |-> content, item |-> i, awaiting |-> TRUE,
                        image |-> decoded.buffer,
                        mimeType |-> IF item.mimeType # "" THEN item.mimeType
                                     ELSE "image/jpeg"]
          ELSE PostProcessAnyData(content, i)

\* Lines 157-211: the loop over result.content from item done + 1 on, until
\* it suspends in the summary call of an image item or reaches the end.
RECURSIVE PostProcess(_, _)
PostProcess(content, done) ==
  IF done >= Len(content)
  THEN [content |-> content, item |-> done, awaiting |-> FALSE,
        image |-> <<>>, mimeType |-> ""]
  ELSE LET i == done + 1
           item == content[i]
       IN IF item.type = "image" /\ Truthy(item.data)
          THEN LET decoded == DecodeImage(item.data)
               IN IF decoded.raised
                  THEN PostProcess([content EXCEPT ![i] = Fallback(item)], i)
                  ELSE [content |-> content, item |-> i, awaiting |-> TRUE,
                        image |-> decoded.buffer,
                        mimeType |-> IF item.mimeType # "" THEN item.mimeType
                                     ELSE "image/jpeg"]
          ELSE PostProcess(content, i)

\* Post-processing applied to the results of every tool.
ExecuteAfterCallToolAnyTool(name, content) ==
  IF Len(content) > 0 THEN PostProcess(content, 0)
  ELSE [content |-> content, item |-> Len(content), awaiting |-> FALSE,
        image |-> <<>>, mimeType |-> ""]

\* Lines 155-156: only browser_screenshot results with content are processed.
ExecuteAfterCallTool(name, content) ==
  IF name = "browser_screenshot" /\ Len(content) > 0 THEN PostProcess(content, 0)
  ELSE [content |-> content, item |-> Len(content), awaiting |-> FALSE,
        image |-> <<>>, mimeType |-> ""]

\* execute either awaits the summary call it has just issued, or returns
\* result.content (line 214).
ExecuteStep(r, p) ==
  IF p.awaiting
  THEN [r EXCEPT !.gen = "summarize", !.content = p.content, !.item = p.item,
                 !.auxCalls = Append(@, [image |-> p.image, mimeType |-> p.mimeType,
                                         item |-> p.item])]
  ELSE ToolReturned(r, p.content)

\* A step of the run: when generateText has settled, executePrompt settles
\* and its caller continues.
Advance(r) ==
  /\ IF r.gen \in {"resolved", "rejected"}
     THEN LET outcome == ExecutePromptSettle(r.gen)
              m == IF mainpc = "interactiveRun" THEN InteractiveAfter(MainState, outcome)
                   ELSE AfterExecutePrompt(MainState, outcome)
          IN /\ run' = [r EXCEPT !.outcome = outcome]
             /\ activeRuns' = activeRuns - 1
             /\ SetMain(m)
     ELSE /\ run' = r
          /\ UNCHANGED <<activeRuns, mainpc, exit, mcpCloseCalls, connState>>
  /\ UNCHANGED <<options, env, store, last, pool, pg, provider, zodDefault, client, tools, handlers, rl, runsStarted>>

\* The model's answer to a round: tool-call requests, or final text alone.
ModelReturns(calls) ==
  /\ Running /\ run.gen = "model"
  /\ Advance(NextRequest([run EXCEPT !.calls = calls, !.requests = @ + Len(calls)]))

\* The model invocation fails: generateText rejects.
ModelRaises ==
  /\ Running /\ run.gen = "model"
  /\ Advance([run EXCEPT !.gen = "rejected", !.failure = "model"])

\* mcpClient.callTool resolves with content.
CallToolReturns(content) ==
  /\ Running /\ run.gen = "callTool"
  /\ Advance(ExecuteStep([run EXCEPT !.provided = Append(@, content)],
       ExecuteAfterCallTool(run.dispatches[Len(run.dispatches)].name, content)))

\* mcpClient.callTool rejects; execute has no handler for it.
CallToolRaises(handling) ==
  /\ Running /\ run.gen = "callTool"
  /\ Advance(ExecuteRaised(run, handling))

\* The summary call resolves (lines 195-200), and the item loop goes on.
SummaryReturns ==
  /\ Running /\ run.gen = "summarize"
  /\ LET content == [run.content EXCEPT ![run.item] = Summarized(@, "a page with a form")]
     IN Advance(ExecuteStep([run EXCEPT !.auxOutcomes = Append(@, "returned")],
                            PostProcess(content, run.item)))

\* A summary call that is issued a second time for the same item when its
\* first attempt rejects.
SummaryRaisesRetries ==
  /\ Running /\ run.gen = "summarize"
  /\ LET issued == run.auxCalls[Len(run.auxCalls)]
         attempts == Cardinality({j \in 1..Len(run.auxCalls) : run.auxCalls[j].item = run.item})
         failed == [run EXCEPT !.auxOutcomes = Append(@, "raised")]
     IN IF attempts < 2
        THEN Advance(ExecuteStep(failed,
                       [content |-> run.content, item |-> run.item, awaiting |-> TRUE,
                        image |-> issued.image, mimeType |-> issued.mimeType]))
        ELSE Advance(ExecuteStep(failed,
                       PostProcess([run.content EXCEPT ![run.item] = Fallback(@)], run.item)))

\* The summary call rejects (lines 203-209), and the item loop goes on.
SummaryRaises ==
  /\ Running /\ run.gen = "summarize"
  /\ LET content == [run.content EXCEPT ![run.item] = Fallback(@)]
     IN Advance(ExecuteStep([run EXCEPT !.auxOutcomes = Append(@, "raised")],
                            PostProcess(content, run.item)))

\* ------------------------------------------------------- main
\* Line 353: initializeMCPClient resolves; the session is now the client.
ConnectOk ==
  /\ Running /\ mainpc = "connect"
  /\ client' = "session"
  /\ connState' = "open"
  /\ mainpc' = "tools"
  /\ UNCHANGED <<options, env, store, last, pool, pg, provider, zodDefault, mcpCloseCalls, tools, exit, handlers, rl, run,
                 activeRuns, runsStarted>>

\* Lines 227-230 and 378-380: the connection fails, initializeMCPClient
\* rethrows and main's catch exits.
ConnectFails ==
  /\ Running /\ mainpc = "connect"
  /\ SetMain(ConnectFailure(MainState))
  /\ UNCHANGED <<options, env, store, last, pool, pg, provider, zodDefault, client, tools, handlers, rl, run, activeRuns, runsStarted>>

\* Lines 357-377: listTools resolves; client.tools() builds the proxies and
\* main chooses its mode, or a translation raises and main's catch exits.
ListToolsOk ==
  /\ Running /\ mainpc = "tools"
  /\ IF ToolsRaises(provider)
     THEN /\ SetMain(Fatal(MainState, "jsonSchemaToZod"))
          /\ UNCHANGED <<tools, run, activeRuns, runsStarted>>
     ELSE /\ tools' = BuildTools(provider)
          /\ IF options.headless /\ options.prompt = Undefined
             THEN /\ SetMain(HeadlessNoPrompt(MainState))
                  /\ UNCHANGED <<run, activeRuns, runsStarted>>
             ELSE IF options.prompt # Undefined
             THEN /\ StartRun(options.prompt.jsString)
                  /\ SetMain([MainState EXCEPT !.mainpc = "run"])
             ELSE /\ SetMain([MainState EXCEPT !.mainpc = "awaitLine"])
                  /\ UNCHANGED <<run, activeRuns, runsStarted>>
  /\ UNCHANGED <<options, env, store, last, pool, pg, provider, zodDefault, client, handlers, rl>>

\* Line 357 and 378-380: discovery fails, main's catch exits.
ListToolsFails ==
  /\ Running /\ mainpc = "tools"
  /\ SetMain(Fatal(MainState, "tools"))
  /\ UNCHANGED <<options, env, store, last, pool, pg, provider, zodDefault, client, tools, handlers, rl, run, activeRuns, runsStarted>>

\* Line 384: main's await of close resolves and main returns.
MainCloseDone ==
  /\ Running /\ mainpc = "closing"
  /\ mainpc' = "done"
  /\ UNCHANGED <<options, env, store, last, pool, pg, provider, zodDefault, client, connState, mcpCloseCalls, tools, exit, handlers,
                 rl, run, activeRuns, runsStarted>>

\* Line 384: close rejects inside finally; main() rejects with no handler.
MainCloseFails ==
  /\ Running /\ mainpc = "closing"
  /\ exit' = [cause |-> "unhandledRejection", code |-> 1, at |-> "main"]
  /\ UNCHANGED <<options, env, store, last, pool, pg, provider, zodDefault, mainpc, client, connState, mcpCloseCalls, tools, handlers,
                 rl, run, activeRuns, runsStarted>>

\* main has returned and nothing is pending: the process ends by itself.
ProcessEnds ==
  /\ Running /\ mainpc = "done"
  /\ \A i \in 1..Len(handlers) : handlers[i].pc # "awaitClose"
  /\ exit' = [cause |-> "normal", code |-> 0, at |-> "main"]
  /\ UNCHANGED <<options, env, store, last, pool, pg, provider, zodDefault, mainpc, client, connState, mcpCloseCalls, tools, handlers,
                 rl, run, activeRuns, runsStarted>>

\* ------------------------------------------------------- interactive mode
InputOpen ==
  /\ ~options.headless /\ ~rl.eof /\ ~rl.closed
  /\ mainpc \in {"run", "awaitLine", "interactiveRun"}

\* The user types a line; readline queues it until the loop asks for it.
LineArrives(line) ==
  /\ Running /\ InputOpen /\ rl.arrived < MaxLines
  /\ rl' = [rl EXCEPT !.pending = Append(@, line), !.arrived = @ + 1]
  /\ UNCHANGED <<options, env, store, last, pool, pg, provider, zodDefault, mainpc, client, connState, mcpCloseCalls, tools, exit,
                 handlers, run, activeRuns, runsStarted>>

\* Standard input ends.
StdinEnds ==
  /\ Running /\ InputOpen
  /\ rl' = [rl EXCEPT !.eof = TRUE]
  /\ UNCHANGED <<options, env, store, last, pool, pg, provider, zodDefault, mainpc, client, connState, mcpCloseCalls, tools, exit,
                 handlers, run, activeRuns, runsStarted>>

\* A line handler that does not wait for the running prompt.
CanTakeLineAnyTime == mainpc \in {"awaitLine", "interactiveRun"}

\* Line 326: for await takes the next line only when the loop body is done.
CanTakeLine == mainpc = "awaitLine"

\* Lines 326-347: one iteration of the loop, up to its next suspension.
TakeLine ==
  /\ Running /\ CanTakeLine /\ rl.pending # <<>>
  /\ LET input == Trim(Head(rl.pending))
     IN IF input \in {<<"exit">>, <<"quit">>}
        THEN /\ rl' = [rl EXCEPT !.pending = Tail(@), !.closed = TRUE]
             /\ SetMain(Finally(MainState))
             /\ UNCHANGED <<run, activeRuns, runsStarted>>
        ELSE IF input = <<>>
        THEN /\ rl' = [rl EXCEPT !.pending = Tail(@)]
             /\ UNCHANGED <<mainpc, exit, mcpCloseCalls, connState, run, activeRuns,
                            runsStarted>>
        ELSE /\ rl' = [rl EXCEPT !.pending = Tail(@)]
             /\ StartRun(input)
             /\ SetMain([MainState EXCEPT !.mainpc = "interactiveRun"])
  /\ UNCHANGED <<options, env, store, last, pool, pg, provider, zodDefault, client, tools, handlers>>

\* The input has ended and every line is read: the loop ends, main's try
\* block is done.
InputEnds ==
  /\ Running /\ mainpc = "awaitLine" /\ rl.pending = <<>> /\ rl.eof
  /\ SetMain(Finally(MainState))
  /\ UNCHANGED <<options, env, store, last, pool, pg, provider, zodDefault, client, tools, handlers, rl, run, activeRuns, runsStarted>>

\* ------------------------------------------------------- signals
Signals == {"SIGINT", "SIGTERM"}

\* A handler that exits without closing.
HandlerNeverCloses(c) == FALSE

\* Lines 393 and 401: if (client).
HandlerCloses(c) == c # "null"

\* Lines 391-405: a signal is delivered; its handler runs up to its await of
\* close, or straight to process.exit(0) when there is no client.
Signal(sig) ==
  /\ Running /\ Len(handlers) < MaxSignals
  /\ IF HandlerCloses(client)
     THEN /\ handlers' = Append(handlers, [sig |-> sig, pc |-> "awaitClose",
                                          connected |-> client # "null",
                                          closeInvoked |-> TRUE])
          /\ SetMain(SessionClose(MainState))
     ELSE /\ handlers' = Append(handlers, [sig |-> sig, pc |-> "exited",
                                          connected |-> client # "null",
                                          closeInvoked |-> FALSE])
          /\ SetMain([MainState EXCEPT !.exit = [cause |-> "signal", code |-> 0, at |-> sig]])
  /\ UNCHANGED <<options, env, store, last, pool, pg, provider, zodDefault, client, tools, rl, run, activeRuns, runsStarted>>

\* Lines 394-396 and 402-404: close resolves, the handler exits.
HandlerCloseDone(i) ==
  /\ Running /\ handlers[i].pc = "awaitClose"
  /\ handlers' = [handlers EXCEPT ![i].pc = "exited"]
  /\ exit' = [cause |-> "signal", code |-> 0, at |-> handlers[i].sig]
  /\ UNCHANGED <<options, env, store, last, pool, pg, provider, zodDefault, mainpc, client, connState, mcpCloseCalls, tools, rl, run,
                 activeRuns, runsStarted>>

\* Lines 394 and 402: close rejects in the handler, which has no catch.
HandlerCloseFails(i) ==
  /\ Running /\ handlers[i].pc = "awaitClose"
  /\ handlers' = [handlers EXCEPT ![i].pc = "rejected"]
  /\ exit' = [cause |-> "unhandledRejection", code |-> 1, at |-> handlers[i].sig]
  /\ UNCHANGED <<options, env, store, last, pool, pg, provider, zodDefault, mainpc, client, connState, mcpCloseCalls, tools, rl, run,
                 activeRuns, runsStarted>>

\* ------------------------------------------------------- specifications
\* The whole process: every mode, input lines and signals at any time, with
\* --max-steps 2. The model asks for at most one tool per round and the
\* provider answers with one item.
ShellModelReturns ==
  /\ run.gen = "model"
  /\ \E calls \in SeqsUpTo(ShellRequests(tools), 1) : ModelReturns(calls)
ShellCallToolReturns ==
  /\ run.gen = "callTool"
  /\ \E content \in ShellContents(run.dispatches[Len(run.dispatches)].name) :
       CallToolReturns(content)

Next ==
  \/ ConnectOk
  \/ ConnectFails
  \/ ListToolsOk
  \/ ListToolsFails
  \/ ShellModelReturns
  \/ ModelRaises
  \/ ShellCallToolReturns
  \/ \E handling \in {"rethrow", "toolError"} : CallToolRaises(handling)
  \/ SummaryReturns
  \/ SummaryRaises
  \/ \E line \in Lines : LineArrives(line)
  \/ StdinEnds
  \/ TakeLine
  \/ InputEnds
  \/ MainCloseDone
  \/ MainCloseFails
  \/ ProcessEnds
  \/ \E sig \in Signals : Signal(sig)
  \/ \E i \in 1..Len(handlers) : HandlerCloseDone(i)
  \/ \E i \in 1..Len(handlers) : HandlerCloseFails(i)

Init ==
  Started([headless : BOOLEAN, prompt : {Undefined, PromptTask}, maxSteps : {<<2>>}],
          {ProviderTools}, {"parsed"})

Spec == Init /\ [][Next]_vars

\* One headless run of a prompt, with every answer of the model and of the
\* provider within the bounds.
LoopInit ==
  Started([headless : {TRUE}, prompt : {PromptTask},
           maxSteps : {<<d>> : d \in 1..MaxBudget}],
          {ProviderTools}, {"parsed"})

LoopModelReturns ==
  /\ run.gen = "model"
  /\ \E calls \in SeqsUpTo(Requests(tools), MaxCalls - run.requests) : ModelReturns(calls)
LoopCallToolReturns ==
  /\ run.gen = "callTool"
  /\ \E content \in ProviderContents(run.dispatches[Len(run.dispatches)].name) :
       CallToolReturns(content)

LoopNext ==
  \/ ConnectOk
  \/ ListToolsOk
  \/ LoopModelReturns
  \/ ModelRaises
  \/ LoopCallToolReturns
  \/ \E handling \in {"rethrow", "toolError"} : CallToolRaises(handling)
  \/ SummaryReturns
  \/ SummaryRaises
  \/ MainCloseDone
  \/ ProcessEnds

LoopSpec == LoopInit /\ [][LoopNext]_vars

\* One tool call and its post-processing: one run of one round in which the
\* model calls either tool and the provider answers with up to MaxItems
\* items of any kind.
ExecInit ==
  Started([headless : {TRUE}, prompt : {PromptTask}, maxSteps : {<<1>>}],
          {ProviderTools}, {"parsed"})

ExecModelReturns ==
  /\ run.gen = "model"
  /\ \E calls \in SeqsUpTo(ShellRequests(tools), 1) : ModelReturns(calls)
ExecCallToolReturns ==
  /\ run.gen = "callTool"
  /\ \E content \in SeqsUpTo(ContentItems, MaxItems) : CallToolReturns(content)

ExecNext ==
  \/ ConnectOk
  \/ ListToolsOk
  \/ ExecModelReturns
  \/ ExecCallToolReturns
  \/ SummaryReturns
  \/ SummaryRaises
  \/ MainCloseDone
  \/ ProcessEnds

ExecSpec == ExecInit /\ [][ExecNext]_vars

\* Discovery and validation: a provider with one tool, search, whose
\* inputSchema is any of the documents below; one run of one round in which
\* the model sends it any of the argument values below.
Str == [type |-> "string"]
Num == [type |-> "number"]
DeclaredProperties ==
  { [q |-> Str], [q |-> Str, n |-> Num], [q |-> EmptyFields],
    [q |-> [type |-> "string", default |-> JStr("d")]],
    [q |-> [type |-> "string", default |-> JNum(5)]],
    [q |-> [default |-> JNum(5)], n |-> Num],
    [q |-> Null], [q |-> StrDoc(<<"s">>)] }
RequiredLists == {<<>>, <<"q">>, <<"n">>, <<"q", "n">>}
ObjectSchemas ==
  {[type |-> "object", properties |-> p, required |-> r] :
     p \in DeclaredProperties, r \in RequiredLists}
  \cup {[type |-> "object", properties |-> p] : p \in DeclaredProperties}
  \cup {[properties |-> p, required |-> <<"q">>] : p \in DeclaredProperties}
  \cup {[type |-> "object"], [type |-> "object", properties |-> EmptyFields],
        [type |-> "object", required |-> <<"q">>]}
Alternatives ==
  {Str, Num, [type |-> "string", enum |-> <<"a", "b">>],
   [type |-> "object", properties |-> [q |-> Str], required |-> <<"q">>],
   [type |-> "array", items |-> Str], [type |-> "null"], EmptyFields}
UnionLists ==
  {ArrayDoc(<<>>)} \cup {ArrayDoc(<<a>>) : a \in Alternatives}
  \cup {ArrayDoc(<<a, b>>) : a \in Alternatives, b \in {Num, [type |-> "null"]}}
  \cup {EmptyFields, NumDoc(5), StrDoc(<<"a">>), StrDoc(<<"a", "b">>)}
UnionSchemas ==
  {[oneOf |-> u] : u \in UnionLists} \cup {[anyOf |-> u] : u \in UnionLists}
  \cup {[oneOf |-> Null, anyOf |-> ArrayDoc(<<Str>>)]}
OtherSchemas ==
  Alternatives
  \cup {[type |-> "foo"], [type |-> "string", enum |-> <<>>], [enum |-> <<>>],
        [type |-> "array"], [type |-> "integer"], [type |-> "boolean"],
        [title |-> "untyped"],
        [type |-> "number", title |-> "count", required |-> <<"q">>],
        [type |-> "string", properties |-> [q |-> Str]],
        [type |-> "array", items |-> Str, properties |-> [q |-> Str]]}
InputSchemas == ObjectSchemas \cup UnionSchemas \cup OtherSchemas

SearchTool(schema) == <<[name |-> "search", description |-> "", inputSchema |-> schema]>>
SearchToolNoSchema == <<[name |-> "search", description |-> ""]>>

ArgValues ==
  {JObj(EmptyFields), JObj([q |-> JStr("x")]), JObj([q |-> JNum(1)]),
   JObj([n |-> JNum(1)]), JObj([q |-> JStr("x"), n |-> JNum(1)]),
   JObj([n |-> JStr("x")]), JObj([other |-> JStr("x")]),
   JStr("a"), JStr("x"), JNum(1), JArr(<<>>), JArr(<<JStr("x")>>),
   [t |-> "null", v |-> <<>>], [t |-> "boolean", v |-> TRUE]}

BridgeInit ==
  Started([headless : {TRUE}, prompt : {PromptTask}, maxSteps : {<<1>>}],
          {SearchTool(schema) : schema \in InputSchemas} \cup {SearchToolNoSchema},
          {"parsed", "returned"})

BridgeModelReturns ==
  /\ run.gen = "model"
  /\ \E calls \in SeqsUpTo({[toolName |-> "search", args |-> a] : a \in ArgValues}, 1) :
       ModelReturns(calls)
BridgeCallToolReturns ==
  /\ run.gen = "callTool"
  /\ CallToolReturns(<<TextItem>>)

BridgeNext ==
  \/ ConnectOk
  \/ ListToolsOk
  \/ BridgeModelReturns
  \/ BridgeCallToolReturns
  \/ MainCloseDone
  \/ ProcessEnds

BridgeSpec == BridgeInit /\ [][BridgeNext]_vars

\* The shell alone: every mode, every way of giving or not giving the key,
\* input lines of every kind; the model answers with text or fails.
ReplLines ==
  {<<" ", "exit">>, <<"quit", " ">>, <<" ">>, <<>>, <<" ", "exit", " ", "now", " ">>, <<"go">>}
ReplOptions ==
  [headless : BOOLEAN, prompt : {Undefined, PromptTask}, maxSteps : {<<1>>}]
  \cup [headless : BOOLEAN, prompt : {Undefined, PromptTask}, maxSteps : {<<1>>},
        apiKey : {<<>>, <<"sk">>}]
ReplInit == Booted(ReplOptions, {KeyInEnv, EmptyFields}, {ProviderTools}, {"parsed"})

ReplModelReturns ==
  /\ run.gen = "model"
  /\ ModelReturns(<<>>)

ReplNext ==
  \/ ConnectOk
  \/ ConnectFails
  \/ ListToolsOk
  \/ ReplModelReturns
  \/ ModelRaises
  \/ \E line \in ReplLines : LineArrives(line)
  \/ StdinEnds
  \/ TakeLine
  \/ InputEnds
  \/ MainCloseDone
  \/ ProcessEnds

ReplSpec == ReplInit /\ [][ReplNext]_vars

\* Discovery: the provider reports any list of the descriptors below, names
\* repeated and in any order; one run of one round with at most one request.
MaxTools == 2       \* most descriptors the provider reports
Descriptors ==
  { [name |-> "browser_screenshot", description |-> "Take a screenshot"],
    [name |-> "search", description |-> "",
     inputSchema |-> [type |-> "object", properties |-> [q |-> Str], required |-> <<"q">>]],
    [name |-> "search", description |-> "search again"],
    [name |-> "fetch", description |-> "",
     inputSchema |-> [type |-> "object", properties |-> [q |-> Str]]] }
ToolsetInit ==
  Started([headless : {TRUE}, prompt : {PromptTask}, maxSteps : {<<1>>}],
          SeqsUpTo(Descriptors, MaxTools), {"parsed"})

ToolsetModelReturns ==
  /\ run.gen = "model"
  /\ \E calls \in SeqsUpTo(Requests(tools), 1) : ModelReturns(calls)
ToolsetCallToolReturns ==
  /\ run.gen = "callTool"
  /\ CallToolReturns(<<TextItem>>)

ToolsetNext ==
  \/ ConnectOk
  \/ ListToolsOk
  \/ ToolsetModelReturns
  \/ ToolsetCallToolReturns
  \/ MainCloseDone
  \/ ProcessEnds

ToolsetSpec == ToolsetInit /\ [][ToolsetNext]_vars

\* The persistence layer alone: any sequence of saveOutput, saveOutputBatch
\* and saveItemToDatabase calls, one at a time, on the items below.
Items ==
  { [title |-> StrDoc(<<"a">>), description |-> StrDoc(<<"d">>), url |-> StrDoc(<<"u">>),
     category |-> StrDoc(<<"c">>)],
    [title |-> StrDoc(<<"a">>), description |-> StrDoc(<<"e">>), url |-> StrDoc(<<"u">>)],
    [title |-> StrDoc(<<"a">>)],
    [title |-> StrDoc(<<"a">>), url |-> StrDoc(<<>>)],
    [title |-> StrDoc(<<"a", "|">>)],
    [title |-> StrDoc(<<"a">>), url |-> StrDoc(<<"|">>)],
    [title |-> StrDoc(<<>>), url |-> StrDoc(<<"u">>)],
    [url |-> StrDoc(<<"u">>)] }
BatchItems ==
  { [title |-> StrDoc(<<"a">>), description |-> StrDoc(<<"d">>), url |-> StrDoc(<<"u">>),
     category |-> StrDoc(<<"c">>)],
    [title |-> StrDoc(<<"a">>), description |-> StrDoc(<<"e">>), url |-> StrDoc(<<"u">>)],
    [title |-> StrDoc(<<"b">>)],
    [url |-> StrDoc(<<"u">>)] }
ToolArgs ==
  { [title |-> StrDoc(<<"a">>), description |-> StrDoc(<<"d">>), url |-> StrDoc(<<"u">>),
     category |-> StrDoc(<<>>)],
    [title |-> StrDoc(<<"a">>), description |-> StrDoc(<<>>), url |-> StrDoc(<<"u">>),
     category |-> StrDoc(<<"c">>)],
    [title |-> StrDoc(<<"a">>), description |-> StrDoc(<<>>), url |-> StrDoc(<<>>),
     category |-> StrDoc(<<>>)],
    [title |-> StrDoc(<<>>), description |-> StrDoc(<<>>), url |-> StrDoc(<<"u">>),
     category |-> StrDoc(<<>>)] }

Called(op, args, res) ==
  /\ store' = res.db
  /\ last' = [op |-> op, args |-> args, outcome |-> res.outcome, value |-> res.value,
              message |-> res.message, before |-> store.rows]
  /\ UNCHANGED <<pool, pg>>
  /\ UNCHANGED processVars

SaveOutputCall(item) ==
  /\ store.now < MaxSaves
  /\ Called("saveOutput", item, saveOutput(store, item))
SaveOutputBatchCall(items) ==
  /\ store.now < MaxSaves
  /\ Called("saveOutputBatch", items, saveOutputBatch(store, items))
SaveItemToDatabaseCall(args) ==
  /\ store.now < MaxSaves
  /\ Called("saveItemToDatabase", args, saveItemToDatabase(store, args))

StoreInit ==
  Started([headless : {TRUE}, prompt : {PromptTask}, maxSteps : {<<1>>}],
          {ProviderTools}, {"parsed"})

StoreNext ==
  \/ \E item \in Items : SaveOutputCall(item)
  \/ \E items \in {ArrayDoc(b) : b \in SeqsUpTo(BatchItems, MaxBatch)} \cup {Undefined} :
       SaveOutputBatchCall(items)
  \/ \E args \in ToolArgs : SaveItemToDatabaseCall(args)

StoreSpec == StoreInit /\ [][StoreNext]_vars

\* The pool's life and the operations that take a client from it, in any
\* order: closeDatabase stays suspended at await pool.end() while other
\* calls run; each other operation runs from its call to its return.
PoolItems ==
  { [title |-> StrDoc(<<"a">>), url |-> StrDoc(<<"u">>)],
    [title |-> StrDoc(<<>>), url |-> StrDoc(<<"u">>)],
    [url |-> StrDoc(<<"u">>)] }
PoolBatches ==
  { ArrayDoc(<<>>), Undefined, StrDoc(<<"a">>),
    ArrayDoc(<<[title |-> StrDoc(<<"a">>), url |-> StrDoc(<<"u">>)]>>),
    ArrayDoc(<<[title |-> StrDoc(<<"b">>)], [url |-> StrDoc(<<"u">>)]>>) }
PoolUrls == {StrDoc(<<"u">>), StrDoc(<<>>), Undefined}
PoolLimits == {0, 100}

\* The pool getPool() would hand to an operation, and whether end() has
\* been called on it: connect on such a pool rejects.
EndInvoked(p, lib) == p <= lib.created /\ lib.ends[p] > 0
WithPoolState(faults) ==
  IF pool # 0 /\ EndInvoked(pool, pg) THEN faults \cup {"connect"} ELSE faults

\* An operation of database.js has run: res is what it did.
ClientCalled(op, args, res) ==
  /\ pg.operations < MaxOperations
  /\ (res.pools = 1 /\ pool = 0) => pg.created < MaxPools
  /\ LET got == IF res.pools = 1 THEN getPool(pool, pg) ELSE [pool |-> pool, pg |-> pg]
     IN /\ pool' = got.pool
        /\ pg' = [got.pg EXCEPT !.acquired = @ + res.acquired,
                                !.released = @ + res.released,
                                !.operations = @ + 1]
  /\ store' = res.db
  /\ last' = [op |-> op, args |-> args, outcome |-> res.outcome, value |-> res.value,
              message |-> res.message, storeBefore |-> store, acquired |-> res.acquired,
              released |-> res.released, queries |-> res.queries, pools |-> res.pools]
  /\ UNCHANGED processVars

SaveOutputOp(item, faults) ==
  ClientCalled("saveOutput", item, saveOutputWithClient(store, item, WithPoolState(faults)))
SaveOutputBatchOp(items, faults) ==
  ClientCalled("saveOutputBatch", items,
               saveOutputBatchWithClient(store, items, WithPoolState(faults)))
GetRecentOutputsOp(limit, faults) ==
  ClientCalled("getRecentOutputs", limit, getRecentOutputs(store, limit, WithPoolState(faults)))
ItemExistsOp(url, faults) ==
  ClientCalled("itemExists", url, itemExists(store, url, WithPoolState(faults)))
InitializeSchemaOp(faults) ==
  ClientCalled("initializeSchema", Undefined, initializeSchema(store, WithPoolState(faults)))
TestConnectionOp(faults) ==
  ClientCalled("testConnection", Undefined, testConnection(store, WithPoolState(faults)))

\* initializeDatabase() and getPool() are called and return.
PoolCalled(op, res) ==
  /\ pool = 0 => pg.created < MaxPools
  /\ pool' = res.pool
  /\ pg' = res.pg
  /\ last' = [op |-> op, outcome |-> "returned", value |-> res.value,
              held |-> pool, created |-> pg.created]
  /\ UNCHANGED store
  /\ UNCHANGED processVars
InitializeDatabaseCall == PoolCalled("initializeDatabase", initializeDatabase(pool, pg))
GetPoolCall == PoolCalled("getPool", getPool(pool, pg))

\* Lines 50-52: closeDatabase is called. With a pool it calls pool.end() and
\* is suspended; the library rejects an end() that is not the pool's first.
\* With no pool it returns.
CloseDatabaseCall ==
  /\ pg.closes < MaxCloses
  /\ IF pool # 0
     THEN /\ pg' = [pg EXCEPT !.closes = @ + 1, !.ends[pool] = @ + 1,
                              !.closing = Append(@, [pool |-> pool,
                                                     rejected |-> pg.ends[pool] > 0])]
          /\ last' = [op |-> "closeDatabase", outcome |-> "suspended", held |-> pool,
                      ends |-> pg.ends, settled |-> FALSE]
     ELSE /\ pg' = [pg EXCEPT !.closes = @ + 1]
          /\ last' = [op |-> "closeDatabase", outcome |-> "returned", held |-> pool,
                      ends |-> pg.ends, settled |-> FALSE]
  /\ UNCHANGED <<pool, store>>
  /\ UNCHANGED processVars

\* Lines 52-55: pool.end() settles for a suspended closeDatabase, which then
\* sets pool to null and returns, or throws when end() rejected.
PoolEndSettles(k) ==
  /\ k \in 1..Len(pg.closing)
  /\ LET c == pg.closing[k]
     IN /\ pool' = IF c.rejected THEN pool ELSE 0
        /\ pg' = [pg EXCEPT !.closing = SubSeq(@, 1, k - 1) \o SubSeq(@, k + 1, Len(@))]
        /\ last' = [op |-> "closeDatabase",
                    outcome |-> IF c.rejected THEN "threw" ELSE "returned",
                    held |-> pool, ends |-> pg.ends, settled |-> TRUE]
  /\ UNCHANGED store
  /\ UNCHANGED processVars

PoolInit ==
  Started([headless : {TRUE}, prompt : {PromptTask}, maxSteps : {<<1>>}],
          {ProviderTools}, {"parsed"})

PoolNext ==
  \/ InitializeDatabaseCall
  \/ GetPoolCall
  \/ CloseDatabaseCall
  \/ \E k \in 1..MaxCloses : PoolEndSettles(k)
  \/ \E item \in PoolItems, faults \in FaultSets : SaveOutputOp(item, faults)
  \/ \E items \in PoolBatches, faults \in FaultSets : SaveOutputBatchOp(items, faults)
  \/ \E limit \in PoolLimits, faults \in FaultSets : GetRecentOutputsOp(limit, faults)
  \/ \E url \in PoolUrls, faults \in FaultSets : ItemExistsOp(url, faults)
  \/ \E faults \in FaultSets : InitializeSchemaOp(faults)
  \/ \E faults \in FaultSets : TestConnectionOp(faults)

PoolSpec == PoolInit /\ [][PoolNext]_vars

\* The sanitizer alone: it is called with any of the schemas below, nested
\* up to MaxDepth levels below a leaf.
MaxDepth == 2
AdditionalValues ==
  {BoolDoc(TRUE), BoolDoc(FALSE), EmptyFields, [type |-> "string"],
   [type |-> "object", additionalProperties |-> BoolDoc(TRUE)],
   [description |-> "free", additionalProperties |-> BoolDoc(FALSE)],
   Null, ArrayDoc(<<>>)}
Leaves ==
  {[type |-> "object"], BoolDoc(TRUE), StrDoc(<<"s">>)}
  \cup {[type |-> "object", additionalProperties |-> ap] : ap \in AdditionalValues}
Wrap(d) ==
  {d,
   [type |-> "object", properties |-> [q |-> d]],
   [type |-> "array", items |-> d],
   [type |-> "array", items |-> ArrayDoc(<<d>>)],
   [oneOf |-> ArrayDoc(<<d>>)],
   [anyOf |-> ArrayDoc(<<d, [type |-> "null"]>>)],
   [allOf |-> ArrayDoc(<<d>>), additionalProperties |-> BoolDoc(FALSE)],
   [type |-> "object", additionalProperties |-> d],
   [oneOf |-> d]}
RECURSIVE SchemasOfDepth(_)
SchemasOfDepth(n) ==
  IF n = 0 THEN Leaves ELSE UNION {Wrap(d) : d \in SchemasOfDepth(n - 1)}

SanitizeCall(schema) ==
  /\ last = NoCall
  /\ LET r == sanitizeJsonSchema(schema)
     IN last' = [op |-> "sanitizeJsonSchema", args |-> schema, value |-> r.out,
                 argument |-> r.arg,
                 again |-> IF r.out = TypeError THEN TypeError
                           ELSE sanitizeJsonSchema(r.out).out]
  /\ UNCHANGED <<store, pool, pg>>
  /\ UNCHANGED processVars

SanitizeInit ==
  Started([headless : {TRUE}, prompt : {PromptTask}, maxSteps : {<<1>>}],
          {ProviderTools}, {"parsed"})
SanitizeNext == \E schema \in SchemasOfDepth(MaxDepth) : SanitizeCall(schema)
SanitizeSpec == SanitizeInit /\ [][SanitizeNext]_vars

\* ------------------------------------------------------- properties
InFlight(r) == r.gen \in {"model", "callTool", "summarize"}

\* C1: once main holds a connected session, close is invoked on it before
\* the process exits on every way out that is not a signal: normal
\* completion, the 'Fatal error' path, the headless-without-prompt exit.
C1_CloseBeforeNonSignalExit ==
  (exit.cause \in {"normal", "fatal", "headlessNoPrompt", "unhandledRejection"}
     /\ client # "null")
  => mcpCloseCalls >= 1

\* C2: a handler that runs while the session is connected invokes close on
\* it, the process exits from a handler only after that handler has invoked
\* close, and SIGINT and SIGTERM take the same path (exit status 0).
C2_SignalClosesBeforeExit ==
  /\ \A i \in 1..Len(handlers) :
       handlers[i].connected => handlers[i].closeInvoked
  /\ mcpCloseCalls >= Cardinality({i \in 1..Len(handlers) : handlers[i].connected})
  /\ exit.cause = "signal" =>
       /\ exit.code = 0
       /\ \E i \in 1..Len(handlers) :
            /\ handlers[i].sig = exit.at
            /\ handlers[i].pc = "exited"
            /\ handlers[i].connected => handlers[i].closeInvoked

\* A handler has closed the session and exited while a screenshot summary
\* was in flight.
C2_Witness ==
  /\ exit.cause = "signal" /\ exit.at = "SIGTERM"
  /\ handlers[1].connected /\ handlers[1].closeInvoked
  /\ run.gen = "summarize"

\* C3: the provider connection's close is performed at most once in any
\* execution, however many callers close the session.
C3_ConnectionClosedAtMostOnce == mcpCloseCalls <= 1

\* C4: with step budget N, a run in which the model never declares
\* completion performs exactly N rounds and then returns normally with N
\* StepRecords and the exhaustion finish reason; no run goes beyond N rounds.
ConfiguredBudget == ParseInt(options.maxSteps)
NeverCompleted(r) == \A k \in 1..Len(r.steps) : r.steps[k].toolCalls # <<>>
C4_ExhaustionAfterBudget ==
  /\ run.round <= ConfiguredBudget
  /\ run.modelCalls <= ConfiguredBudget
  /\ Len(run.steps) <= ConfiguredBudget
  /\ (run.gen = "resolved" /\ NeverCompleted(run)) =>
       /\ Len(run.steps) = ConfiguredBudget
       /\ run.modelCalls = ConfiguredBudget
       /\ run.finishReason = ExhaustionReason
       /\ run.outcome = "returned"
  /\ (Len(run.steps) = ConfiguredBudget /\ NeverCompleted(run)) =>
       (run.gen = "resolved" /\ run.outcome = "returned")

\* A run with budget 2 has ended after two rounds of tool calls.
C4_Witness ==
  /\ ConfiguredBudget = 2
  /\ run.outcome = "returned" /\ run.finishReason = ExhaustionReason
  /\ Len(run.steps) = 2 /\ NeverCompleted(run)

\* C5: a request whose arguments the tool's signature rejects is never
\* dispatched to the provider; its result in the round is a failure, the
\* round still gets its StepRecord, and the loop goes on to the next round.
\* Both tools take an object; the search tool requires q, a string.
SignatureRejects(req) ==
  \/ req.args.t # "object"
  \/ /\ req.toolName = "search"
     /\ \/ "q" \notin DOMAIN req.args.v
        \/ req.args.v.q.t # "string"
RejectedIn(calls, n) == {i \in 1..n : SignatureRejects(calls[i])}
RECURSIVE RejectedInSteps(_)
RejectedInSteps(steps) ==
  IF steps = <<>> THEN 0
  ELSE RejectedInSteps(SubSeq(steps, 1, Len(steps) - 1))
       + Cardinality(RejectedIn(steps[Len(steps)].toolCalls,
                                Len(steps[Len(steps)].toolCalls)))
C5_RejectedNeverDispatched ==
  /\ \A k \in 1..Len(run.dispatches) :
       ~SignatureRejects([toolName |-> run.dispatches[k].name,
                          args |-> run.dispatches[k].arguments])
  /\ InFlight(run) =>
       Len(run.dispatches) =
         run.requests - (Len(run.calls) - run.idx)
           - RejectedInSteps(run.steps)
           - Cardinality(RejectedIn(run.calls, run.idx))
  /\ \A k \in 1..Len(run.steps) :
       LET step == run.steps[k]
       IN \A i \in RejectedIn(step.toolCalls, Len(step.toolCalls)) :
            /\ step.toolResults[i].isError
            /\ step.toolResults[i].content = <<>>
  /\ \A i \in RejectedIn(run.calls, run.idx) : InFlight(run) => run.results[i].isError
  /\ run.gen = "rejected" => run.failure \in {"model", "execute"}
  /\ (run.gen = "resolved" /\ NeverCompleted(run)) => Len(run.steps) = run.budget

\* The first round asked search without q; its record holds the failure and
\* the second round's model invocation is in flight, nothing dispatched.
C5_Witness ==
  /\ Len(run.steps) = 1
  /\ run.steps[1].toolCalls = <<[toolName |-> "search", args |-> JObj(EmptyFields)]>>
  /\ SignatureRejects(run.steps[1].toolCalls[1])
  /\ run.steps[1].toolResults[1].isError
  /\ run.gen = "model" /\ run.round = 2
  /\ run.dispatches = <<>>

\* C6: an error raised by the provider's callTool never leaves the loop: the
\* run does not fail and executePrompt does not throw because of it.
C6_DispatchFailureAbsorbed ==
  run.failure = "execute" => (run.gen # "rejected" /\ run.outcome # "threw")

\* C7: once a model invocation has failed, the run is over: it issues no
\* further model invocation, tool dispatch or summary call (no retry), and
\* executePrompt throws to its caller.
C7_ModelFailureAborts ==
  /\ [](run.failure = "model" =>
         (run.gen = "rejected" /\ run.outcome = "threw" /\ activeRuns = 0))
  /\ [][(run.failure = "model" /\ runsStarted' = runsStarted) => run' = run]_vars

\* The model invocation of the second round has failed; the first round's
\* record is still there.
C7_Witness ==
  /\ run.failure = "model" /\ run.outcome = "threw"
  /\ Len(run.steps) = 1 /\ run.modelCalls = 2

\* C8: in interactive mode a prompt whose execution throws neither ends the
\* process nor closes the session: the loop prompts for the next line.
C8_InteractiveFailureContinues ==
  [][(mainpc = "interactiveRun" /\ InFlight(run) /\ run'.outcome = "threw") =>
       /\ exit' = exit
       /\ mcpCloseCalls' = mcpCloseCalls
       /\ connState' = connState
       /\ client' = client /\ tools' = tools
       /\ mainpc' = "awaitLine"
       /\ rl'.closed = rl.closed]_vars

\* A prompt has failed in interactive mode, the session is open and the next
\* line, a prompt, is waiting to be executed.
C8_Witness ==
  /\ Running /\ mainpc = "awaitLine" /\ options.prompt = Undefined
  /\ run.outcome = "threw" /\ runsStarted = 1
  /\ mcpCloseCalls = 0 /\ connState = "open"
  /\ rl.pending # <<>> /\ Trim(Head(rl.pending)) = <<"go">>

\* C9: at most one executePrompt is unsettled at any time, and one starts
\* only when none is.
C9_OneRunAtATime ==
  /\ [](activeRuns <= 1)
  /\ [](activeRuns = 1 <=> InFlight(run))
  /\ [][runsStarted' # runsStarted => (activeRuns = 0 /\ ~InFlight(run))]_vars

\* A prompt is running in interactive mode while the next prompt line is
\* already queued.
C9_Witness ==
  /\ mainpc = "interactiveRun" /\ activeRuns = 1
  /\ rl.pending # <<>> /\ Trim(Head(rl.pending)) = <<"go">>

\* C10: the step callback has reported every completed round exactly once,
\* the terminal round included, in round order, before the next round's
\* model invocation; in a round the tool results are in request order.
ResultsFollowCalls(calls, results) ==
  /\ Len(results) <= Len(calls)
  /\ \A i \in 1..Len(results) : results[i].toolName = calls[i].toolName
C10_StepCallbackInOrder ==
  /\ Len(run.stepLog) = Len(run.steps)
  /\ \A k \in 1..Len(run.stepLog) :
       /\ run.stepLog[k].stepNumber = k
       /\ run.steps[k].index = k
       /\ Len(run.steps[k].toolResults) = Len(run.steps[k].toolCalls)
       /\ ResultsFollowCalls(run.steps[k].toolCalls, run.steps[k].toolResults)
       /\ run.stepLog[k].toolCalls =
            [i \in 1..Len(run.steps[k].toolCalls) |-> run.steps[k].toolCalls[i].toolName]
       /\ run.stepLog[k].toolResults = run.stepLog[k].toolCalls
  /\ InFlight(run) =>
       /\ run.modelCalls = Len(run.stepLog) + 1
       /\ ResultsFollowCalls(run.calls, run.results)
  /\ run.gen = "resolved" => Len(run.stepLog) = run.modelCalls

\* A run of two rounds has completed: the first asked two different tools,
\* the second is the terminal round with the final text.
C10_Witness ==
  /\ run.gen = "resolved" /\ run.finishReason = CompletionReason
  /\ Len(run.stepLog) = 2
  /\ Len(run.steps[1].toolCalls) = 2
  /\ run.steps[1].toolCalls[1].toolName # run.steps[1].toolCalls[2].toolName
  /\ ~run.steps[1].toolResults[1].isError /\ ~run.steps[1].toolResults[2].isError

\* ------------------------------------------------------- the translator
\* The search tool's schema as the provider reports it, and its signature
\* once client.tools() has built the proxies.
Discovered == tools # NoTools
HasSchema == Has(provider[1], "inputSchema")
SearchSchema == provider[1].inputSchema
SearchSignature == tools["search"].parameters
ObjectValues == {v \in ArgValues : v.t = "object"}
Lacking(k) == {v \in ObjectValues : k \notin DOMAIN v.v}
Without(v, k) == JObj([j \in (DOMAIN v.v) \ {k} |-> v.v[j]])
DeclaresProperties(schema) ==
  /\ IsObjectDoc(schema) /\ Has(schema, "properties")
  /\ ~Has(schema, "oneOf") /\ ~Has(schema, "anyOf")
RequiredNames(schema) == IF Has(schema, "required") THEN SeqToSet(schema.required) ELSE {}
DeclaresDefault(value) == IsObjectDoc(value) /\ Has(value, "default")

\* C15 as stated: in an object schema every property named in the required
\* set is a non-optional field (a value lacking it is rejected) and every
\* other declared property is an optional field (a value lacking it is
\* accepted).
C15_RequiredSplit ==
  (Discovered /\ HasSchema /\ DeclaresProperties(SearchSchema)) =>
    \A k \in DOMAIN SearchSchema.properties :
      IF k \in RequiredNames(SearchSchema)
      THEN \A v \in Lacking(k) : ~Accepts(SearchSignature, v)
      ELSE \A v \in ObjectValues :
             Accepts(SearchSignature, v) => Accepts(SearchSignature, Without(v, k))

\* C15 amended: the declared names are exactly the fields of the signature;
\* a declared property without a default is a non-optional field when it is
\* named in the required set (a value lacking it is rejected, unless the
\* property's own signature is the unconstrained one, which accepts an
\* absent value) and an optional field otherwise (a value lacking it is
\* accepted).
C15_RequiredSplitWithoutDefault ==
  (Discovered /\ HasSchema /\ DeclaresProperties(SearchSchema)) =>
    /\ DOMAIN SearchSignature.shape = DOMAIN SearchSchema.properties
    /\ \A k \in DOMAIN SearchSchema.properties :
         ~DeclaresDefault(SearchSchema.properties[k]) =>
           /\ SearchSignature.shape[k].optional = (k \notin RequiredNames(SearchSchema))
           /\ (k \in RequiredNames(SearchSchema) /\ SearchSignature.shape[k].z # "any") =>
                \A v \in Lacking(k) : ~Accepts(SearchSignature, v)
           /\ k \notin RequiredNames(SearchSchema) =>
                \A v \in ObjectValues :
                  Accepts(SearchSignature, v) => Accepts(SearchSignature, Without(v, k))

\* The schema {q: string, n: number} with q required: a call that gives q
\* and leaves n out has been dispatched, and {} is rejected.
C15_Witness ==
  /\ provider = SearchTool([type |-> "object", properties |-> [q |-> Str, n |-> Num],
                            required |-> <<"q">>])
  /\ run.dispatches = <<[name |-> "search", arguments |-> JObj([q |-> JStr("x")])]>>
  /\ ~Accepts(SearchSignature, JObj(EmptyFields))

\* C16: a schema document without a recognized type tag, malformed ones
\* included, never makes the translator raise and translates to the
\* unconstrained signature. (A union node with an array of alternatives and a
\* node whose declared properties are all objects are recognized by these
\* keys and are not meant.)
RecognizedTypes == {"object", "string", "number", "integer", "boolean", "array", "null"}
UnionList(schema) == IF TruthyKey(schema, "oneOf") THEN schema.oneOf ELSE schema.anyOf
Unrecognized(schema) ==
  /\ ~(Has(schema, "type") /\ schema.type \in RecognizedTypes)
  /\ (TruthyKey(schema, "oneOf") \/ TruthyKey(schema, "anyOf")) => ~IsArrayDoc(UnionList(schema))
  /\ Has(schema, "properties") =>
       \E k \in DOMAIN schema.properties :
         ~IsObjectDoc(schema.properties[k])
C16_UnrecognizedIsUnconstrained ==
  (HasSchema /\ Unrecognized(SearchSchema)) =>
    /\ exit.at # "jsonSchemaToZod"
    /\ Discovered => SearchSignature = ZAny

\* C17: a union node with exactly one alternative translates to that
\* alternative's own translation, unwrapped, and so accepts the same values;
\* a union node with two or more alternatives accepts a value exactly when
\* the translation of one of its alternatives accepts it.
IsUnionNode(schema) ==
  /\ IsObjectDoc(schema)
  /\ TruthyKey(schema, "oneOf") \/ TruthyKey(schema, "anyOf")
  /\ IsArrayDoc(UnionList(schema))
C17_UnionOfAlternatives ==
  (Discovered /\ HasSchema /\ IsUnionNode(SearchSchema)) =>
    LET alts == UnionList(SearchSchema).elems
    IN /\ Len(alts) = 1 =>
            /\ SearchSignature = jsonSchemaToZod(alts[1])
            /\ \A v \in ArgValues :
                 Accepts(SearchSignature, v) = Accepts(jsonSchemaToZod(alts[1]), v)
       /\ Len(alts) >= 2 =>
            \A v \in ArgValues :
              Accepts(SearchSignature, v)
                = (\E i \in 1..Len(alts) : Accepts(jsonSchemaToZod(alts[i]), v))

\* A union of the one alternative string has been translated to the string
\* signature and a string has gone through it to the provider.
C17_Witness ==
  /\ provider = SearchTool([oneOf |-> ArrayDoc(<<Str>>)])
  /\ Discovered /\ SearchSignature = ZString
  /\ run.dispatches = <<[name |-> "search", arguments |-> JStr("x")]>>

\* C19: a declared property with a default: an object in which it is absent
\* (and whose other fields are valid) is accepted and the validated object
\* carries the default as the field's value, required or not.
OtherFieldsValid(sig, v, k) ==
  \A j \in (DOMAIN sig.shape) \ {k} : Accepts(sig.shape[j], Field(v, j))
C19_DefaultWhenAbsent ==
  (Discovered /\ HasSchema /\ DeclaresProperties(SearchSchema)) =>
    \A k \in DOMAIN SearchSchema.properties :
      DeclaresDefault(SearchSchema.properties[k]) =>
        \A v \in Lacking(k) :
          OtherFieldsValid(SearchSignature, v, k) =>
            /\ Accepts(SearchSignature, v)
            /\ Field(ParseArgs(SearchSignature, v), k) = SearchSchema.properties[k].default

\* C20: an object node without declared children accepts every object and
\* hands on its name / value pairs as they are; a tool without inputSchema
\* accepts every object as its arguments.
Childless(schema) ==
  /\ IsObjectDoc(schema) /\ Has(schema, "type") /\ schema.type = "object"
  /\ ~TruthyKey(schema, "oneOf") /\ ~TruthyKey(schema, "anyOf")
  /\ Has(schema, "properties") => DOMAIN schema.properties = {}
C20_ChildlessObjectAcceptsAnyObject ==
  /\ (Discovered /\ HasSchema /\ Childless(SearchSchema)) =>
       \A v \in ObjectValues :
         Accepts(SearchSignature, v) /\ ParseArgs(SearchSignature, v) = v
  /\ (Discovered /\ ~HasSchema) =>
       \A v \in ObjectValues : Accepts(SearchSignature, v)

\* An object with a pair the schema does not name has reached the provider
\* of a tool whose schema is {type: object}.
C20_Witness ==
  /\ provider = SearchTool([type |-> "object"])
  /\ run.dispatches = <<[name |-> "search", arguments |-> JObj([other |-> JStr("x")])]>>

\* C21: a node that has no type tag but declares properties is translated
\* exactly as the same node with the type tag object: the translation raises
\* for both or for neither, the signatures are the same (the same fields, the
\* same required/optional split, the same defaults) and they accept the same
\* values.
WithTypeObject(schema) ==
  [k \in DOMAIN schema \cup {"type"} |-> IF k = "type" THEN "object" ELSE schema[k]]
Tagless == HasSchema /\ DeclaresProperties(SearchSchema) /\ ~Has(SearchSchema, "type")
C21_TaglessIsObject ==
  Tagless =>
    LET tagged == WithTypeObject(SearchSchema)
    IN /\ ToolsRaises(provider) = ToolsRaises(SearchTool(tagged))
       /\ Discovered =>
            /\ SearchSignature = jsonSchemaToZod(tagged)
            /\ \A v \in ArgValues :
                 Accepts(SearchSignature, v) = Accepts(jsonSchemaToZod(tagged), v)

\* The tagless schema {properties: {q: string, n: number}, required: [q]}:
\* {} is rejected, n may be left out, and a call giving q has been dispatched.
C21_Witness ==
  /\ provider = SearchTool([properties |-> [q |-> Str, n |-> Num], required |-> <<"q">>])
  /\ Discovered
  /\ SearchSignature.z = "object"
  /\ ~Accepts(SearchSignature, JObj(EmptyFields))
  /\ run.dispatches = <<[name |-> "search", arguments |-> JObj([q |-> JStr("x")])]>>

\* ------------------------------------------------------- tool results
\* The one tool call of a run: what the provider returned for it and what
\* execute returned to the loop.
CallReturned ==
  /\ Len(run.provided) = 1 /\ run.gen = "resolved"
  /\ Len(run.results) = 1 /\ ~run.results[1].isError
CalledTool == run.dispatches[1].name
ProvidedContent == run.provided[1]
ReturnedContent == run.results[1].content
SummaryMarker == "[Screenshot summary] "
Placeholder == <<"[Screenshot taken but could not be summarized]">>
SummaryOutcomeAt(i, outcome) ==
  \E j \in 1..Len(run.auxOutcomes) :
    run.auxCalls[j].item = i /\ run.auxOutcomes[j] = outcome

\* C11: after a browser_screenshot call no item of kind image remains in the
\* returned content, and the text of each successfully summarized item
\* begins with the summary marker.
C11_NoImageRemains ==
  (CallReturned /\ CalledTool = "browser_screenshot") =>
    \A i \in 1..Len(ReturnedContent) :
      /\ ReturnedContent[i].type # "image"
      /\ SummaryOutcomeAt(i, "returned") =>
           (ReturnedContent[i].type = "text" /\ ReturnedContent[i].text[1] = SummaryMarker)

\* C12: the content returned for a browser_screenshot call has the length of
\* the provider's content; an item that was not an image is returned
\* unchanged at its position, and an item that differs from the provider's
\* is a text item standing where an image stood.
C12_OrderAndLengthPreserved ==
  (CallReturned /\ CalledTool = "browser_screenshot") =>
    /\ Len(ReturnedContent) = Len(ProvidedContent)
    /\ \A i \in 1..Len(ProvidedContent) :
         /\ ProvidedContent[i].type # "image" => ReturnedContent[i] = ProvidedContent[i]
         /\ ReturnedContent[i] # ProvidedContent[i] =>
              (ProvidedContent[i].type = "image" /\ ReturnedContent[i].type = "text")
    /\ \A j \in 1..Len(run.auxCalls) :
         /\ ProvidedContent[run.auxCalls[j].item].type = "image"
         /\ run.auxCalls[j].image = DecodeImage(ProvidedContent[run.auxCalls[j].item].data).buffer

\* An image followed by a text item has come back as the summary followed by
\* the same text item.
C12_Witness ==
  /\ CallReturned /\ CalledTool = "browser_screenshot"
  /\ ProvidedContent = <<ImageUri, TextItem>>
  /\ ReturnedContent[1].type = "text" /\ ReturnedContent[1].text[1] = SummaryMarker
  /\ ReturnedContent[2] = TextItem

\* C13: a tool other than browser_screenshot returns exactly the content the
\* provider returned, images included, and makes no auxiliary model call.
C13_OtherToolsPassThrough ==
  (run.dispatches # <<>> /\ CalledTool # "browser_screenshot") =>
    /\ run.auxCalls = <<>>
    /\ CallReturned => ReturnedContent = ProvidedContent

\* The search tool has returned an image and a text item as they came.
C13_Witness ==
  /\ CallReturned /\ CalledTool = "search"
  /\ ReturnedContent = <<ImageUri, TextItem>>

\* C14: an image item whose decoding or summary call raises becomes a text
\* item with the placeholder text; every other item is returned as it would
\* be without the failure (an image with data summarized, anything else
\* unchanged); the run does not fail and the call returns its content.
DecodeRaisesAt(i) ==
  /\ ProvidedContent[i].type = "image" /\ Truthy(ProvidedContent[i].data)
  /\ DecodeImage(ProvidedContent[i].data).raised
NormalizationFailedAt(i) == DecodeRaisesAt(i) \/ SummaryOutcomeAt(i, "raised")
C14_FailureDegradesOneItem ==
  /\ run.failure = "none" /\ run.gen # "rejected"
  /\ (CallReturned /\ CalledTool = "browser_screenshot") =>
       /\ Len(ReturnedContent) = Len(ProvidedContent)
       /\ \A i \in 1..Len(ProvidedContent) :
            IF NormalizationFailedAt(i)
            THEN ReturnedContent[i].type = "text" /\ ReturnedContent[i].text = Placeholder
            ELSE IF ProvidedContent[i].type = "image" /\ Truthy(ProvidedContent[i].data)
            THEN ReturnedContent[i] = Summarized(ProvidedContent[i], "a page with a form")
            ELSE ReturnedContent[i] = ProvidedContent[i]

\* The first image could not be decoded and the second one's summary call
\* succeeded: placeholder first, summary second.
C14_Witness ==
  /\ CallReturned /\ CalledTool = "browser_screenshot"
  /\ ProvidedContent = <<ImageBadUri, ImageRaw>>
  /\ ReturnedContent[1].text = Placeholder
  /\ ReturnedContent[2].text[1] = SummaryMarker

\* ------------------------------------------------------- the shell
\* C22: when neither the key override nor OPENAI_API_KEY is given (an empty
\* string is not a key), the process has exited with a non-zero status
\* before main was called: no connection attempt, no discovery, no model
\* invocation.
KeyAbsent ==
  /\ ("apiKey" \notin DOMAIN options \/ options.apiKey = <<>>)
  /\ ("OPENAI_API_KEY" \notin DOMAIN env \/ env.OPENAI_API_KEY = <<>>)
C22_NoKeyExitsAtOnce ==
  KeyAbsent =>
    /\ exit.cause = "noApiKey" /\ exit.code # 0
    /\ mainpc = "unstarted"
    /\ connState = "none" /\ client = "null" /\ mcpCloseCalls = 0
    /\ tools = NoTools
    /\ runsStarted = 0 /\ run.modelCalls = 0

\* --api-key '' with no OPENAI_API_KEY: the process has exited with status 1.
C22_Witness ==
  /\ Has(options, "apiKey") /\ options.apiKey = <<>>
  /\ env = EmptyFields
  /\ exit = [cause |-> "noApiKey", code |-> 1, at |-> "startup"]

\* C23: main awaits the connection once and never again; when it fails the
\* process has exited with a non-zero status from main's catch, with no
\* session, no discovery and no model invocation.
C23_ConnectFailureIsFatal ==
  /\ [](connState = "failed" =>
          /\ exit.cause = "fatal" /\ exit.code # 0 /\ exit.at = "connect"
          /\ client = "null" /\ tools = NoTools
          /\ runsStarted = 0 /\ run.modelCalls = 0)
  /\ [][/\ mainpc' = "connect" => mainpc = "connect"
        /\ connState' # connState =>
             \/ connState = "none" /\ connState' \in {"open", "failed"}
             \/ connState = "open" /\ connState' = "closed"]_vars

\* The connection has failed and the process has exited with status 1.
C23_Witness ==
  /\ connState = "failed"
  /\ exit = [cause |-> "fatal", code |-> 1, at |-> "connect"]

\* C26: in headless mode interactive mode is never entered and no input
\* line is read. With a prompt, executePrompt is called once discovery is
\* done and never again, and when it has settled main is leaving: through
\* its finally (the session's close is invoked) after a return, through its
\* catch (exit status 1) after a throw. Without a prompt no prompt is
\* executed and the process exits with a non-zero status once discovery is
\* done.
C26_HeadlessRunsOnce ==
  options.headless =>
    /\ mainpc \notin {"awaitLine", "interactiveRun"}
    /\ rl.arrived = 0 /\ ~rl.closed
    /\ IF options.prompt = Undefined
       THEN /\ runsStarted = 0 /\ run.modelCalls = 0
            /\ mainpc \notin {"run", "closing", "done"}
            /\ tools # NoTools => (exit.cause = "headlessNoPrompt" /\ exit.code # 0)
       ELSE /\ runsStarted <= 1
            /\ tools # NoTools =>
                 (runsStarted = 1 /\ run.prompt = options.prompt.jsString)
            /\ run.outcome = "returned" =>
                 (mainpc \in {"closing", "done"} /\ mcpCloseCalls >= 1)
            /\ run.outcome = "threw" => (exit.cause = "fatal" /\ exit.code # 0)

\* Headless with a prompt: the one run has returned and main has returned
\* after closing the session.
C26_Witness ==
  /\ options.headless /\ options.prompt = PromptTask
  /\ runsStarted = 1 /\ run.outcome = "returned"
  /\ mainpc = "done" /\ mcpCloseCalls = 1

\* C27 as stated: with a prompt and without --headless, the prompt is
\* executed first, and once that execution has settled, returned or thrown,
\* interactive mode is entered.
InteractiveEntered == mainpc \in {"awaitLine", "interactiveRun", "closing", "done"}
FirstRunPending == runsStarted = 1 /\ run.outcome = "none"
C27_SinglePromptThenInteractive ==
  (~options.headless /\ options.prompt # Undefined) =>
    /\ tools # NoTools => runsStarted >= 1
    /\ runsStarted = 0 => ~InteractiveEntered
    /\ FirstRunPending => (run.prompt = options.prompt.jsString /\ ~InteractiveEntered)
    /\ (runsStarted >= 1 /\ ~FirstRunPending) => InteractiveEntered

\* C28: in interactive mode a line that trims to exit or quit closes the
\* input and ends the loop without executing a prompt, and afterwards no
\* line is taken and no prompt executed; a line that trims to nothing
\* executes no prompt and the loop goes on; any other line starts exactly
\* one executePrompt, with the trimmed line as its prompt. No prompt other
\* than main's own is executed without a line being taken.
IsTrimOf(t, line) ==
  \E a, b \in 0..Len(line) :
    /\ a + b <= Len(line)
    /\ t = SubSeq(line, a + 1, Len(line) - b)
    /\ \A i \in 1..a : line[i] = " "
    /\ \A i \in (Len(line) - b + 1)..Len(line) : line[i] = " "
    /\ t = <<>> \/ (t[1] # " " /\ t[Len(t)] # " ")
LineTaken == Len(rl'.pending) < Len(rl.pending)
C28_LineHandling ==
  /\ [][LineTaken =>
          LET line == Head(rl.pending)
          IN /\ rl'.pending = Tail(rl.pending)
             /\ IF IsTrimOf(<<"exit">>, line) \/ IsTrimOf(<<"quit">>, line)
                THEN /\ rl'.closed
                     /\ runsStarted' = runsStarted /\ run' = run
                     /\ mainpc' \notin {"awaitLine", "interactiveRun"}
                ELSE IF IsTrimOf(<<>>, line)
                THEN /\ ~rl'.closed
                     /\ runsStarted' = runsStarted /\ run' = run
                     /\ mainpc' = "awaitLine"
                ELSE /\ ~rl'.closed
                     /\ runsStarted' = runsStarted + 1
                     /\ IsTrimOf(run'.prompt, line)
                     /\ run'.gen = "model" /\ run'.modelCalls = 1
                     /\ mainpc' = "interactiveRun"]_vars
  /\ [][rl.closed =>
          (rl'.pending = rl.pending /\ runsStarted' = runsStarted /\ run' = run)]_vars
  /\ [][runsStarted' # runsStarted => (LineTaken \/ mainpc = "tools")]_vars

\* The line " exit now " has been executed as the prompt "exit now", and a
\* later exit line has closed the input.
C28_Witness ==
  /\ runsStarted = 1
  /\ run.prompt = <<"exit", " ", "now">>
  /\ rl.closed /\ rl.arrived = 2 /\ rl.pending = <<>>

\* C29 as stated: once the session's close has been invoked, by main's
\* finally or by a signal handler, no executePrompt is started, no model
\* invocation (the summary call included) and no callTool is issued.
TeardownBegun == mcpCloseCalls >= 1
C29_NoCallAfterTeardown ==
  [][TeardownBegun =>
       /\ runsStarted' = runsStarted
       /\ run'.modelCalls <= run.modelCalls
       /\ Len(run'.dispatches) <= Len(run.dispatches)
       /\ Len(run'.auxCalls) <= Len(run.auxCalls)]_vars

\* C30: client.tools() registers one proxy for each distinct descriptor
\* name and no other, each built from a descriptor of that name; a request
\* to the proxy registered under n whose arguments pass n's signature is
\* dispatched under the name n with the arguments as validated, whatever
\* the number and the order of the descriptors.
DescriptorNames == {provider[i].name : i \in 1..Len(provider)}
ToolsBuilt == mainpc \notin {"connect", "tools"}
C30_DispatchUnderOwnName ==
  ToolsBuilt =>
    /\ DOMAIN tools = DescriptorNames
    /\ \A n \in DOMAIN tools :
         \E i \in 1..Len(provider) :
           provider[i].name = n /\ tools[n].parameters = ToolParameters(provider[i])
    /\ run.dispatches # <<>> =>
         LET req == run.calls[1]
         IN /\ Len(run.dispatches) = 1
            /\ run.dispatches[1].name = req.toolName
            /\ Accepts(tools[req.toolName].parameters, req.args)
            /\ run.dispatches[1].arguments =
                 ParseArgs(tools[req.toolName].parameters, req.args)

\* search is reported first and fetch last; a request to search has been
\* dispatched under the name search.
C30_Witness ==
  /\ Len(provider) = 2 /\ provider[1].name = "search" /\ provider[2].name = "fetch"
  /\ Has(provider[1], "inputSchema")
  /\ run.dispatches = <<[name |-> "search", arguments |-> JObj([q |-> JStr("x")])]>>

\* ------------------------------------------------------- persistence
TextOf(d) == IF Has(d, "str") THEN d.str ELSE <<>>
SameTitleAndUrl(r, item) ==
  r.title = Get(item, "title") /\ TextOf(r.url) = TextOf(Get(item, "url"))

\* C24 as stated: saveItemToDatabase with a title returns; when a row with
\* the same title and URL was there before the call the reply is the
\* duplicate outcome (success false, 'Item already exists in database
\* (duplicate)'), otherwise it reports success.
C24_DuplicateIsReported ==
  (last.op = "saveItemToDatabase" /\ TextOf(last.args.title) # <<>>) =>
    /\ last.outcome = "returned"
    /\ IF \E r \in last.before : SameTitleAndUrl(r, last.args)
       THEN last.value.success = FALSE /\ last.value.message = DuplicateMessage
       ELSE last.value.success = TRUE

\* C25 as stated: the table never holds two rows with the same title and
\* URL (no URL counting as the empty one); no call removes a row or changes
\* anything of it but updated_at; and after a saveOutput that returned, the
\* table holds exactly one row with the item's title and URL: the row that
\* was there before, all others untouched, or else one new row.
Unstamped(r) == [k \in DOMAIN r \ {"updated_at"} |-> r[k]]
C25_OneRowPerTitleAndUrl ==
  /\ \A r1, r2 \in store.rows :
       (r1.title = r2.title /\ TextOf(r1.url) = TextOf(r2.url)) => r1 = r2
  /\ last.op # "none" =>
       \A r \in last.before :
         \E r2 \in store.rows :
           Unstamped(r2) = Unstamped(r) /\ r2.updated_at >= r.updated_at
  /\ (last.op = "saveOutput" /\ last.outcome = "returned") =>
       LET prior == {r \in last.before : SameTitleAndUrl(r, last.args)}
           kept == {r \in store.rows : SameTitleAndUrl(r, last.args)}
       IN /\ Cardinality(kept) = 1
          /\ SameTitleAndUrl(last.value, last.args)
          /\ IF prior = {}
             THEN /\ Cardinality(store.rows) = Cardinality(last.before) + 1
                  /\ last.before \subseteq store.rows
             ELSE /\ Cardinality(store.rows) = Cardinality(last.before)
                  /\ last.before \ prior \subseteq store.rows

\* ------------------------------------------------------- the normalizer
AuxCallsFor(i) == {j \in 1..Len(run.auxCalls) : run.auxCalls[j].item = i}
ScreenshotDispatched == run.dispatches # <<>> /\ CalledTool = "browser_screenshot"
SummaryInFlight == run.gen = "summarize"
Summarizable(item) ==
  item.type = "image" /\ Truthy(item.data) /\ ~DecodeImage(item.data).raised

\* C31 as stated: when a browser_screenshot call has returned, every image
\* item of the provider's content has had exactly one auxiliary model call
\* and every other item none.
C31_OneCallPerImageItem ==
  (CallReturned /\ CalledTool = "browser_screenshot") =>
    \A i \in 1..Len(ProvidedContent) :
      Cardinality(AuxCallsFor(i)) = (IF ProvidedContent[i].type = "image" THEN 1 ELSE 0)

\* C31: the auxiliary model calls of a browser_screenshot result are issued
\* in item order, never twice for one item, and at most one is in flight:
\* a call is outstanding exactly while execute awaits it, and every earlier
\* call has returned or failed. When the tool call has returned, an item has
\* had one call exactly when it is an image whose data is present and
\* decodes, and no call otherwise.
C31_OneCallPerDecodedImageInOrder ==
  /\ Len(run.auxCalls) = Len(run.auxOutcomes) + (IF SummaryInFlight THEN 1 ELSE 0)
  /\ \A j, k \in 1..Len(run.auxCalls) :
       j < k => run.auxCalls[j].item < run.auxCalls[k].item
  /\ SummaryInFlight => run.auxCalls[Len(run.auxCalls)].item = run.item
  /\ (CallReturned /\ CalledTool = "browser_screenshot") =>
       \A i \in 1..Len(ProvidedContent) :
         Cardinality(AuxCallsFor(i)) = (IF Summarizable(ProvidedContent[i]) THEN 1 ELSE 0)

\* Two images were summarized one after the other, the first call failing
\* and the second returning, and the tool call has returned.
C31_Witness ==
  /\ CallReturned /\ CalledTool = "browser_screenshot"
  /\ ProvidedContent = <<ImageUri, ImageRaw>>
  /\ run.auxOutcomes = <<"raised", "returned">>
  /\ run.auxCalls[1].item = 1 /\ run.auxCalls[2].item = 2

\* C32: after a browser_screenshot call has returned, every item that was an
\* image with data is a text item that carries neither the data nor the
\* MIME type, whether it was summarized or replaced by the placeholder.
C32_NoPayloadNoMimeType ==
  (CallReturned /\ CalledTool = "browser_screenshot") =>
    \A i \in 1..Len(ProvidedContent) :
      (ProvidedContent[i].type = "image" /\ Truthy(ProvidedContent[i].data)) =>
        /\ ReturnedContent[i].type = "text"
        /\ ReturnedContent[i].data = NoData
        /\ ReturnedContent[i].mimeType = ""

\* ------------------------------------------------------- typed nodes
\* C33: a node that is not a union is translated by its type tag alone,
\* whatever other keys it has: string accepts exactly the strings (exactly
\* the listed literals when an enum is declared), number and integer exactly
\* the numbers, boolean exactly the booleans, null exactly null, and array
\* exactly the sequences whose elements the translation of items accepts
\* (any elements when items is not given).
ScalarTypes == {"string", "number", "integer", "boolean", "null", "array"}
TypedNode(schema) ==
  /\ IsObjectDoc(schema) /\ Has(schema, "type") /\ schema.type \in ScalarTypes
  /\ ~TruthyKey(schema, "oneOf") /\ ~TruthyKey(schema, "anyOf")
ElementSchema(schema) == IF TruthyKey(schema, "items") THEN schema.items ELSE EmptyFields
MeantToAccept(schema, v) ==
  CASE schema.type = "string" ->
         /\ v.t = "string"
         /\ Has(schema, "enum") => v.v \in SeqToSet(schema.enum)
    [] schema.type \in {"number", "integer"} -> v.t = "number"
    [] schema.type = "boolean" -> v.t = "boolean"
    [] schema.type = "null" -> v.t = "null"
    [] schema.type = "array" ->
         /\ v.t = "array"
         /\ \A i \in 1..Len(v.v) : Accepts(jsonSchemaToZod(ElementSchema(schema)), v.v[i])
C33_DispatchOnTypeTagAlone ==
  (HasSchema /\ TypedNode(SearchSchema)) =>
    /\ exit.at # "jsonSchemaToZod"
    /\ Discovered =>
         \A v \in ArgValues : Accepts(SearchSignature, v) = MeantToAccept(SearchSchema, v)

\* ------------------------------------------------------- batches
\* The last call was a saveOutputBatch that returned its summary.
BatchReturned == last.op = "saveOutputBatch" /\ last.outcome = "returned"
BatchElems == last.args.elems
FingerprintOf(item) ==
  ContentHash(IF Has(item, "title") THEN item.title ELSE Null, OrNull(Get(item, "url")))
ExistedAtStatement(i) ==
  \/ \E r \in last.before : r.content_hash = FingerprintOf(BatchElems[i])
  \/ \E j \in 1..(i - 1) : FingerprintOf(BatchElems[j]) = FingerprintOf(BatchElems[i])

\* C34: in a batch whose statements all succeed, the items counted as saved
\* are those whose statement inserted a new row, and the items counted as
\* updated are those whose fingerprint was already in the table when their
\* statement ran, a row inserted by an earlier item of the same batch
\* included.
C34_SavedIsInsertedUpdatedIsExisting ==
  (BatchReturned /\ last.value.failed = 0) =>
    /\ last.value.updated =
         Cardinality({i \in 1..Len(BatchElems) : ExistedAtStatement(i)})
    /\ last.value.saved =
         Cardinality({i \in 1..Len(BatchElems) : ~ExistedAtStatement(i)})

\* The titles of the items at the indices in S, in item order.
TitlesAt(S) ==
  LET F[k \in 0..Len(BatchElems)] ==
        IF k = 0 THEN <<>>
        ELSE IF k \in S THEN Append(F[k - 1], Get(BatchElems[k], "title"))
        ELSE F[k - 1]
  IN F[Len(BatchElems)]
ErrorTitles == [k \in 1..Len(last.value.errors) |-> last.value.errors[k].item]
InTable(item) == \E r \in store.rows : r.content_hash = FingerprintOf(item)

\* C35: when saveOutputBatch returns, saved + updated + failed is the number
\* of items, errors has one entry per failed item in item order, and every
\* item that is not among the failed ones (it was counted as saved or
\* updated) has its row in the table after the call.
C35_SummaryAccountsForEveryItem ==
  BatchReturned =>
    /\ last.value.saved + last.value.updated + last.value.failed = Len(BatchElems)
    /\ Len(last.value.errors) = last.value.failed
    /\ \E S \in SUBSET (1..Len(BatchElems)) :
         /\ Cardinality(S) = last.value.failed
         /\ TitlesAt(S) = ErrorTitles
         /\ \A i \in (1..Len(BatchElems)) \ S : InTable(BatchElems[i])

\* ------------------------------------------------------- clients
ClientOperations ==
  {"saveOutput", "saveOutputBatch", "getRecentOutputs", "itemExists", "initializeSchema",
   "testConnection"}
TookClient == last.op \in ClientOperations /\ last.acquired = 1

\* C36: every client that saveOutput, saveOutputBatch, getRecentOutputs,
\* itemExists, initializeSchema or testConnection takes from the pool is
\* released exactly once, however the operation ends (a query, BEGIN, COMMIT
\* or ROLLBACK that raises included); an operation takes at most one client,
\* and none when connect rejects; after any sequence of operations every
\* client taken has been released.
C36_EveryClientReleasedOnce ==
  /\ pg.released = pg.acquired
  /\ last.op \in ClientOperations =>
       /\ last.acquired \in {0, 1}
       /\ last.released = last.acquired
       /\ last.message = FaultError("connect") => last.acquired = 0
       /\ last.queries # <<>> => last.acquired = 1

\* A batch whose COMMIT and ROLLBACK both raised has thrown the error of
\* ROLLBACK, and its client has been released.
C36_Witness ==
  /\ last.op = "saveOutputBatch" /\ last.outcome = "threw"
  /\ last.queries = <<"BEGIN", "INSERT", "COMMIT", "ROLLBACK">>
  /\ last.message = FaultError("ROLLBACK")
  /\ TookClient /\ last.released = 1
  /\ pg.acquired = 2 /\ pg.released = 2

\* ------------------------------------------------------- the pool
Pools == 1..pg.created
Live(p) == pg.ends[p] = 0
AtMostOneLivePool == Cardinality({p \in Pools : Live(p)}) <= 1
InitializeReturnsExisting ==
  (last.op = "initializeDatabase" /\ last.held # 0) =>
    (last.value = last.held /\ pg.created = last.created)
EndAtMostOncePerPool == \A p \in Pools : pg.ends[p] <= 1
GetPoolReturnsLivePool == last.op = "getPool" => Live(last.value)
CloseWithoutPoolIsNoOp ==
  (last.op = "closeDatabase" /\ ~last.settled /\ last.held = 0) =>
    (last.outcome = "returned" /\ pool = 0 /\ pg.ends = last.ends)

\* C37: under every interleaving of initializeDatabase, getPool and
\* closeDatabase (closeDatabase being suspended while the pool ends): at most
\* one pool is live, initializeDatabase returns the pool that exists without
\* constructing another, end() is called at most once on each pool, getPool
\* never returns a pool on which end() has been called, and closeDatabase
\* with no pool does nothing.
C37_OnePoolEndedOnce ==
  /\ AtMostOneLivePool
  /\ InitializeReturnsExisting
  /\ EndAtMostOncePerPool
  /\ GetPoolReturnsLivePool
  /\ CloseWithoutPoolIsNoOp

\* ------------------------------------------------------- validation
\* The last operation took no pool, no client, sent no statement and left
\* the store as it was.
NothingAcquired ==
  /\ last.pools = 0 /\ last.acquired = 0 /\ last.queries = <<>>
  /\ store = last.storeBefore
TitleRequired == <<"Title", "is", "required">>

\* C38: saveOutput with a missing or empty title raises 'Title is
\* required', saveOutputBatch with a value that is not an array or with an
\* empty array raises, and itemExists with an empty or missing URL returns
\* false; each does so before asking for the pool or a client, sends no
\* statement and leaves the store unchanged.
C38_ValidationBeforeAnyResource ==
  /\ (last.op = "saveOutput" /\ ~TruthyDoc(Get(last.args, "title"))) =>
       /\ last.outcome = "threw" /\ last.message = TitleRequired
       /\ NothingAcquired
  /\ (last.op = "saveOutputBatch"
        /\ (~IsArrayDoc(last.args) \/ Len(last.args.elems) = 0)) =>
       /\ last.outcome = "threw"
       /\ NothingAcquired
  /\ (last.op = "itemExists" /\ ~TruthyDoc(last.args)) =>
       /\ last.outcome = "returned" /\ last.value = FALSE
       /\ NothingAcquired

\* After one item was saved, a saveOutput with an empty title has raised:
\* the row is still the only one and no second client was taken.
C38_Witness ==
  /\ last.op = "saveOutput" /\ Get(last.args, "title") = StrDoc(<<>>)
  /\ last.outcome = "threw" /\ last.message = TitleRequired
  /\ Cardinality(store.rows) = 1
  /\ pg.operations = 2 /\ pg.acquired = 1

\* ------------------------------------------------------- sanitized schemas
Sanitized == last.op = "sanitizeJsonSchema" /\ last.value # TypeError
Unwanted(ap) == ap = BoolDoc(TRUE) \/ (IsObjectDoc(ap) /\ ~HasType(ap))
ListKeys == {"oneOf", "anyOf", "allOf"}

\* No level of d that is reached through properties, items, oneOf, anyOf and
\* allOf has an additionalProperties that is true or an object without type.
RECURSIVE Clean(_)
Clean(d) ==
  IsObjectDoc(d) =>
    /\ Has(d, "additionalProperties") => ~Unwanted(d.additionalProperties)
    /\ (Has(d, "properties") /\ IsObjectDoc(d.properties)) =>
         \A k \in DOMAIN d.properties : Clean(d.properties[k])
    /\ Has(d, "items") => Clean(d.items)
    /\ \A k \in ListKeys :
         (Has(d, k) /\ IsArrayDoc(d[k])) =>
           \A i \in 1..Len(d[k].elems) : Clean(d[k].elems[i])

\* Every level of the schema s reached through the same keys that has
\* additionalProperties false has it in r, the result, at the same place.
RECURSIVE FalseKept(_, _)
FalseKept(s, r) ==
  IsObjectDoc(s) =>
    /\ (Has(s, "additionalProperties") /\ s.additionalProperties = BoolDoc(FALSE)) =>
         (Has(r, "additionalProperties") /\ r.additionalProperties = BoolDoc(FALSE))
    /\ (Has(s, "properties") /\ IsObjectDoc(s.properties)) =>
         \A k \in DOMAIN s.properties : FalseKept(s.properties[k], r.properties[k])
    /\ Has(s, "items") => FalseKept(s.items, r.items)
    /\ \A k \in ListKeys :
         (Has(s, k) /\ IsArrayDoc(s[k])) =>
           \A i \in 1..Len(s[k].elems) : FalseKept(s[k].elems[i], r[k].elems[i])

====
